---- MODULE Spec2Model ----
\* Resolution engine (kernel/ui_apis.py: Verifier, ElementList, CodeStatus),
\* the catalog queries it uses (kernel/api_doc.py) and the tree queries it
\* uses (kernel/utils.py), as a state machine.  The environment collaborator
\* is external: every snapshot fetch may observe any of the UI trees below.
EXTENDS Integers, Sequences, FiniteSets, TLC

\* ---------------------------------------------------------------- bounds
\* number of top-level requests of one script run
MaxRequests == 2

\* ------------------------------------------------- configured constants
\* imported from the kernel package (ui_apis.py line 17)
MAX_SCROLL_NUM == 2
MAX_DEPENDENCE_DEPTH == 2
MAX_DEPENDENCE_WIDTH == 2

\* ------------------------------------------------------------ UI trees
None == "None"
NoEle == -1

\* an api name is the sequence of its '__'-separated segments
A_go == <<"A", "go">>
A_go2 == <<"A", "go2">>
A_x == <<"A", "x">>
A_grp == <<"A", "grp">>
B_t == <<"B", "t">>
A_nope == <<"A", "nope">>

\* EleAttr: the fields of one node the engine reads
EleAttr(type, props, text, bbox, children) ==
  [type |-> type, props |-> props, text |-> text, bbox |-> bbox, children |-> children]

\* BoundingBox <<x_min, x_max, y_min, y_max>> in pixels
BoundingBox(a, b, c, d) == <<a, b, c, d>>

NoFind == [n \in {A_go, A_go2, A_x, A_grp, B_t} |-> NoEle]

\* The snapshots the environment can return.  skel is the skeleton string of
\* the tree, approx the screen of greatest common structure, ele the ele_map,
\* find the element each catalog locator resolves to, scrollable the
\* scrollable_ele_ids list, str the serialized tree.
UITrees == <<
  [ str |-> 1, skel |-> "skA", approx |-> "A",
    ele |-> [i \in 0..3 |->
      CASE i = 0 -> EleAttr("div", "root", "", BoundingBox(0, 100, 0, 200), <<1>>)
        [] i = 1 -> EleAttr("scrollbar", "c1", "", BoundingBox(0, 100, 20, 200), <<2, 3>>)
        [] i = 2 -> EleAttr("button", "go", "Go", BoundingBox(10, 21, 40, 61), <<>>)
        [] i = 3 -> EleAttr("button", "go2", "More", BoundingBox(30, 50, 40, 60), <<>>)],
    find |-> [NoFind EXCEPT ![A_go] = 2, ![A_go2] = 3, ![A_grp] = 1],
    scrollable |-> <<1>> ],
  [ str |-> 2, skel |-> "skA2", approx |-> "A",
    ele |-> [i \in 0..6 |->
      CASE i = 0 -> EleAttr("div", "root", "", BoundingBox(0, 100, 0, 200), <<1, 5>>)
        [] i = 1 -> EleAttr("scrollbar", "c1", "", BoundingBox(0, 100, 20, 200), <<2, 3, 4>>)
        [] i = 2 -> EleAttr("button", "go", "Go", BoundingBox(10, 21, 20, 41), <<>>)
        [] i = 3 -> EleAttr("button", "go2", "More", BoundingBox(30, 50, 20, 40), <<>>)
        [] i = 4 -> EleAttr("p", "x", "Item", BoundingBox(60, 81, 20, 40), <<>>)
        [] i = 5 -> EleAttr("scrollbar", "c2", "", BoundingBox(0, 100, 100, 200), <<6>>)
        [] i = 6 -> EleAttr("button", "b6", "Other", BoundingBox(0, 20, 100, 120), <<>>)],
    find |-> [NoFind EXCEPT ![A_go] = 2, ![A_go2] = 3, ![A_x] = 4, ![A_grp] = 1],
    scrollable |-> <<1, 5>> ],
  [ str |-> 3, skel |-> "skB", approx |-> "B",
    ele |-> [i \in 0..2 |->
      CASE i = 0 -> EleAttr("div", "rootB", "", BoundingBox(0, 100, 0, 200), <<1, 2>>)
        [] i = 1 -> EleAttr("button", "t", "Target", BoundingBox(4, 9, 6, 9), <<>>)
        [] i = 2 -> EleAttr("button", "b", "Close", BoundingBox(50, 60, 6, 9), <<>>)],
    find |-> [NoFind EXCEPT ![B_t] = 1],
    scrollable |-> <<>> ],
  [ str |-> 4, skel |-> "skH", approx |-> None,
    ele |-> [i \in 0..1 |->
      CASE i = 0 -> EleAttr("div", "home", "", BoundingBox(0, 100, 0, 200), <<1>>)
        [] i = 1 -> EleAttr("button", "icon", "App", BoundingBox(0, 10, 0, 10), <<>>)],
    find |-> NoFind,
    scrollable |-> <<>> ]
>>

UIs == 1..Len(UITrees)

\* ------------------------------------------------------------- catalog
\* DependentAction after parsing: owning screen, referenced name, action type
DependentAction(screen, name, type) ==
  [screen_name |-> screen, name |-> name, action_type |-> type, text |-> None]

\* ApiDoc.doc: screen name -> api name -> ApiEle (its dependency_action)
ApiDocScreens == {"A", "B"}

ApiNames == {A_go, A_go2, A_x, A_grp, B_t}

ApiEle_dependency_action(name) ==
  IF name = B_t
    THEN << << DependentAction("A", A_go, "touch"),
               DependentAction("A", A_go2, "touch"),
               DependentAction("A", <<"A">>, "back") >>,
            << DependentAction("A", A_go, "touch") >> >>
  ELSE IF name = A_x
    THEN << << DependentAction("B", <<"B">>, "back") >> >>
  ELSE << >>

\* ApiDoc.skeleton_str2screen_name
skeleton_str2screen_name == [s \in {"skA", "skB"} |-> IF s = "skA" THEN "A" ELSE "B"]

\* ApiDoc.screen_name2skeleton
screen_name2skeleton == [s \in ApiDocScreens |-> IF s = "A" THEN "skA" ELSE "skB"]

\* ApiDoc.get_screen_name_by_skeleton
get_screen_name_by_skeleton(u) ==
  IF UITrees[u].skel \in DOMAIN skeleton_str2screen_name
    THEN skeleton_str2screen_name[UITrees[u].skel]
    ELSE UITrees[u].approx

\* ApiDoc.check_api_name_in_current_screen, for a str api name
check_api_name_in_current_screen(name, u) ==
  LET screen == Head(name) IN
  IF screen \notin DOMAIN screen_name2skeleton THEN FALSE
  ELSE IF screen_name2skeleton[screen] = UITrees[u].skel THEN TRUE
  ELSE screen = get_screen_name_by_skeleton(u)

\* ApiDoc.get_api_by_name raises KeyError: doc[name.split('__')[0]] for a
\* screen the catalog does not have
get_api_by_name_raises(name) == Head(name) \notin ApiDocScreens

\* ApiDoc.get_api_by_name: doc[screen].get(name), << >> standing for None
get_api_by_name(name) == IF name \in ApiNames THEN <<name>> ELSE << >>

\* ApiDoc.get_dependency: the dependency_action list, << >> also for None
get_dependency(name) ==
  IF get_api_by_name(name) = << >> THEN << >>
  ELSE ApiEle_dependency_action(get_api_by_name(name)[1])

\* -------------------------------------------------------- tree queries
\* a locator is a catalog xpath (named by its api) or the synthesized
\* //type[@id='n'] of a discovered element
ApiLoc(name) == [kind |-> "api", name |-> name, type |-> None, id |-> NoEle]
IdLoc(type, id) == [kind |-> "id", name |-> << >>, type |-> type, id |-> id]

\* ElementTree.get_ele_by_xpath: the id of the first match, NoEle for None
get_ele_by_xpath(u, loc) ==
  IF loc.kind = "api" THEN UITrees[u].find[loc.name]
  ELSE IF loc.id \in DOMAIN UITrees[u].ele /\ UITrees[u].ele[loc.id].type = loc.type
    THEN loc.id
    ELSE NoEle

\* ElementTree.get_ele_descs_without_text
get_ele_descs_without_text(u) ==
  {UITrees[u].ele[i].props : i \in DOMAIN UITrees[u].ele}

\* ElementTree.get_ele_by_properties: first element of ele_map with these
\* properties
get_ele_by_properties(u, props) ==
  LET hits == {i \in DOMAIN UITrees[u].ele : UITrees[u].ele[i].props = props} IN
  IF hits = {} THEN NoEle ELSE CHOOSE i \in hits : \A j \in hits : i <= j

\* a centre that is the top-left corner of the box
center_int_corner(bbox) == <<bbox[1], bbox[3]>>

\* BoundingBox.center followed by int(): both coordinates are >= 0
center_int(bbox) == <<(bbox[1] + bbox[2]) \div 2, (bbox[3] + bbox[4]) \div 2>>

\* utils.convert_action
convert_action(action_type, u, id, text) ==
  IF action_type \in {"touch", "long_touch", "set_text"}
    THEN [action_type |-> CASE action_type = "touch" -> "click"
                            [] action_type = "long_touch" -> "long_press"
                            [] OTHER -> "input_text",
          x |-> center_int(UITrees[u].ele[id].bbox)[1],
          y |-> center_int(UITrees[u].ele[id].bbox)[2],
          text |-> IF action_type = "set_text" THEN text ELSE None]
  ELSE IF action_type \in {"scroll up", "scroll down", "scroll left", "scroll right"}
    THEN [action_type |-> "scroll", x |-> id, y |-> 0, text |-> None]
  ELSE [action_type |-> "wait", x |-> 0, y |-> 0, text |-> None]

\* --------------------------------------------------------------- state
VARIABLES
  cache,                 \* Verifier._state / _element_tree: 0 before the first fetch
  last_screen_html_str,  \* CodeStatus.last_screen_html_str: 0 for None
  action_count,          \* CodeStatus.action_count
  index,                 \* ElementList.index of each handle
  nreq,                  \* top-level requests started in this run
  pc,                    \* position of the request in flight
  req,                   \* the request in flight
  gn,                    \* arguments of get_and_navigate_target_element
  fs,                    \* locals of find_and_scroll_target_ele
  fsres,                 \* its return value
  dep,                   \* locals of the dependency loop
  target_ele,            \* target_ele of get_and_navigate_target_element
  grpTree,               \* element_tree local of find_target_element_in_group / back
  outcome,               \* how the last request ended
  hist,                  \* what the request in flight has done so far
  mon,                   \* progress of the settle sequence after the last action
  inp,                   \* arguments of the pure function under study
  out                    \* what it has computed from them

engineVars == <<cache, last_screen_html_str, action_count, index, nreq, pc, req, gn,
                fs, fsres, dep, target_ele, grpTree, outcome, hist, mon>>

vars == <<cache, last_screen_html_str, action_count, index, nreq, pc, req, gn, fs,
          fsres, dep, target_ele, grpTree, outcome, hist, mon, inp, out>>

NoTarget == [u |-> 0, id |-> NoEle]
NoAct == [action_type |-> None, x |-> 0, y |-> 0, text |-> None]

\* ElementList handles of the script: by api name, or discovered (api_name None)
Handle(name, xpath) == [api_name |-> name, xpath |-> xpath]
Handles == { Handle(A_grp, ApiLoc(A_grp)), Handle(A_x, ApiLoc(A_x)),
             Handle(B_t, ApiLoc(B_t)), Handle(<< >>, IdLoc("button", 2)) }

\* what a script passes as element selector
StrSel(name) == [k |-> "str", name |-> name, h |-> Handle(<< >>, ApiLoc(<< >>))]
HandleSel(h) == [k |-> "handle", name |-> << >>, h |-> h]
NoSel == [k |-> "none", name |-> << >>, h |-> Handle(<< >>, ApiLoc(<< >>))]
Sels == {StrSel(n) : n \in ApiNames \cup {A_nope}} \cup {HandleSel(h) : h \in Handles}

\* the api_name argument as the callee receives it: a str, the 1-tuple built
\* by Verifier.check_api, the xpath list of a discovered handle, or None
ApiArg(kind, name) == [kind |-> kind, name |-> name]

NoReq == [via |-> None, op |-> None, sel |-> NoSel, h |-> Handle(<< >>, ApiLoc(<< >>)),
          action_type |-> None, arg |-> None]
NoGn == [api |-> ApiArg("none", << >>), xpath |-> ApiLoc(<< >>)]
NoFs == [xpath |-> ApiLoc(<< >>), caller |-> None, conts |-> << >>, ci |-> 0, it |-> 0,
         seen |-> {}, props |-> None, tree |-> 0]
NoDep == [counter |-> 0, count |-> 0, idx |-> 0, is_match |-> FALSE, dep_id |-> -1]
NoHist == [scrolls |-> 0, navs |-> 0, terms |-> 0, backs |-> 0, opens |-> 0,
           logA |-> 0, logN |-> 0, logC |-> 0, foundBy |-> None, searched |-> FALSE,
           count0 |-> 0, rbacks |-> 0, cscrolls |-> 0, dead |-> FALSE, extra |-> 0,
           act |-> NoAct]

TypedErrors == {"XPathError", "APIError", "ActionError", "NotFoundError"}
UntypedErrors == {"AttributeError", "KeyError", "TypeError", "UnboundLocalError"}

\* ---------------------------------------------------- settle sequence
\* events of one step, in program order: "exec" env.execute_action, "sleep"
\* time.sleep(WAIT_AFTER_ACTION_SECONDS), "refresh" update_state, "fp"
\* check_last_screen_html.  pending: 0 settled, 1 executed, 2 slept, 3 refreshed
MonStep(m, ev) ==
  CASE ev = "exec" -> [pending |-> 1, ok |-> m.ok /\ m.pending = 0]
    [] ev = "sleep" -> [pending |-> IF m.pending = 1 THEN 2 ELSE m.pending,
                        ok |-> m.ok /\ m.pending \in {0, 1}]
    [] ev = "refresh" -> [pending |-> IF m.pending = 2 THEN 3 ELSE m.pending,
                          ok |-> m.ok /\ m.pending \in {0, 2}]
    [] OTHER -> [pending |-> IF m.pending = 3 THEN 0 ELSE m.pending,
                 ok |-> m.ok /\ m.pending \in {0, 3}]

RECURSIVE MonRun(_, _)
MonRun(m, evs) == IF evs = << >> THEN m ELSE MonRun(MonStep(m, Head(evs)), Tail(evs))

\* ------------------------------------------------------ CodeStatus
\* CodeStatus.check_action_count
check_action_count(n) == n + 1

\* CodeStatus.check_last_screen: the value it returns
check_last_screen(last, s) == last # 0 /\ last = s

\* Verifier.state / element_tree: the cached tree, fetched on first use
element_tree(c, u) == IF c = 0 THEN u ELSE c

\* the settle sequence the engine runs after env.execute_action
SettleEvents == <<"exec", "sleep", "refresh", "fp">>

NoInp == [kind |-> None]
NoOut == [stage |-> None]

\* the engine right after construction
EngineInit ==
  /\ cache = 0
  /\ last_screen_html_str = 0
  /\ action_count = 0
  /\ index = [h \in Handles |-> 0]
  /\ nreq = 0
  /\ pc = "idle"
  /\ req = NoReq
  /\ gn = NoGn
  /\ fs = NoFs
  /\ fsres = NoTarget
  /\ dep = NoDep
  /\ target_ele = NoTarget
  /\ grpTree = 0
  /\ outcome = None
  /\ hist = NoHist
  /\ mon = [pending |-> 0, ok |-> TRUE]

Init ==
  /\ EngineInit
  /\ inp = NoInp
  /\ out = NoOut

\* a request ends: normally (the script goes on) or with an exception (the
\* run is aborted)
Ends(o) ==
  /\ outcome' = o
  /\ pc' = IF o \in {"ok", "StopIteration"} THEN "idle" ELSE "done"

\* get_and_navigate_target_element without the search of line 387
StartGN_skips_search(r, api, xpath) ==
  /\ req' = r
  /\ gn' = [api |-> api, xpath |-> xpath]
  /\ fs' = [NoFs EXCEPT !.xpath = xpath, !.caller = "top"]
  /\ fsres' = NoTarget
  /\ dep' = NoDep
  /\ target_ele' = NoTarget
  /\ outcome' = None
  /\ pc' = "gn"

\* a request starts: get_and_navigate_target_element(api, xpath) is entered
StartGN(r, api, xpath) ==
  /\ req' = r
  /\ gn' = [api |-> api, xpath |-> xpath]
  /\ fs' = [NoFs EXCEPT !.xpath = xpath, !.caller = "top"]
  /\ fsres' = NoTarget
  /\ dep' = NoDep
  /\ target_ele' = NoTarget
  /\ outcome' = None
  /\ pc' = "fs"

\* ------------------------------------ Verifier.find_and_scroll_target_ele
\* the value find_and_scroll_target_ele returns goes to its caller: the head
\* of get_and_navigate_target_element, or the dependency loop
FsReturn(res, by) ==
  /\ fsres' = res
  /\ pc' = IF fs.caller = "top" THEN "gn" ELSE "depAfterFS"
  /\ hist' = IF fs.caller # "top" THEN hist
             ELSE IF res # NoTarget THEN [hist EXCEPT !.searched = TRUE, !.foundBy = by]
             ELSE [hist EXCEPT !.searched = TRUE]

\* lines 320-325: direct lookup in the cached tree
FSDirect ==
  /\ pc = "fs"
  /\ \E u \in UIs :
       LET t == element_tree(cache, u)
           id == get_ele_by_xpath(t, fs.xpath)
       IN /\ cache' = t
          /\ IF id # NoEle
               THEN /\ FsReturn([u |-> t, id |-> id], "direct")
                    /\ fs' = fs
               ELSE /\ fs' = [fs EXCEPT !.conts = UITrees[t].scrollable, !.ci = 1,
                                        !.it = 0, !.seen = {}, !.tree = t]
                    /\ pc' = "fsOuter"
                    /\ UNCHANGED <<fsres, hist>>
  /\ UNCHANGED <<last_screen_html_str, action_count, index, nreq, req, gn, dep,
                 target_ele, grpTree, outcome, mon>>

\* lines 326-333: next container of the list taken from the first tree; its
\* EleAttr is read from the ele_map of the tree now in element_tree
FSOuter ==
  /\ pc = "fsOuter"
  /\ IF fs.ci > Len(fs.conts)
       THEN /\ FsReturn(NoTarget, None)
            /\ UNCHANGED <<fs, outcome>>
       ELSE IF fs.conts[fs.ci] \notin DOMAIN UITrees[fs.tree].ele
         THEN /\ Ends("KeyError")
              /\ UNCHANGED <<fs, fsres, hist>>
         ELSE /\ fs' = [fs EXCEPT !.props = UITrees[fs.tree].ele[fs.conts[fs.ci]].props,
                                  !.it = 0]
              /\ pc' = "fsInner"
              /\ hist' = [hist EXCEPT !.cscrolls = 0, !.dead = FALSE]
              /\ UNCHANGED <<fsres, outcome>>
  /\ UNCHANGED <<cache, last_screen_html_str, action_count, index, nreq, req, gn, dep,
                 target_ele, grpTree, mon>>

\* the scroll of lines 369-382 counts as scroll-search scroll for the
\* requested target and as navigation sub-action inside the dependency loop
CountScroll(h) ==
  IF fs.caller = "top" THEN [h EXCEPT !.scrolls = @ + 1] ELSE [h EXCEPT !.navs = @ + 1]

\* bookkeeping of the scrolls on the current container: the scroll from tree
\* t to tree u saturates the container when u shows no description that was
\* not seen before or has the serialized form of t; extra counts the scrolls
\* issued on a saturated container
ContainerScroll(h, t, u, seen) ==
  [h EXCEPT !.cscrolls = @ + 1,
            !.extra = IF h.dead THEN @ + 1 ELSE @,
            !.dead = \/ h.dead
                     \/ get_ele_descs_without_text(u) \subseteq seen
                     \/ UITrees[u].str = UITrees[t].str]

\* every view is taken for new
scrolled_new_views_all(descs, seen) == descs

\* lines 343-349: the descriptions not met before in this search
scrolled_new_views(descs, seen) == descs \ seen

\* lines 335-382: one round of the scroll loop of a container
FSInner ==
  /\ pc = "fsInner"
  /\ IF fs.it >= MAX_SCROLL_NUM
       THEN /\ fs' = [fs EXCEPT !.ci = @ + 1]
            /\ pc' = "fsOuter"
            /\ UNCHANGED <<cache, last_screen_html_str, fsres, hist, mon>>
       ELSE
         LET t == cache
             id == get_ele_by_xpath(t, fs.xpath)
             descs == get_ele_descs_without_text(t)
             new_views == scrolled_new_views(descs, fs.seen)
             cont == get_ele_by_properties(t, fs.props)
             logged == [hist EXCEPT !.logN = @ + 1]
         IN IF id # NoEle
              THEN /\ FsReturn([u |-> t, id |-> id], "scroll")
                   /\ fs' = [fs EXCEPT !.tree = t]
                   /\ UNCHANGED <<cache, last_screen_html_str, mon>>
            ELSE IF new_views = {}
              THEN /\ fs' = [fs EXCEPT !.tree = t, !.ci = @ + 1]
                   /\ pc' = "fsOuter"
                   /\ UNCHANGED <<cache, last_screen_html_str, fsres, hist, mon>>
            ELSE IF cont = NoEle
              THEN /\ fs' = [fs EXCEPT !.tree = t, !.seen = @ \cup descs, !.it = @ + 1]
                   /\ hist' = logged
                   /\ pc' = "fsInner"
                   /\ UNCHANGED <<cache, last_screen_html_str, fsres, mon>>
            ELSE \E u \in UIs :
                   LET is_same == check_last_screen(last_screen_html_str, UITrees[u].str)
                   IN /\ cache' = u
                      /\ last_screen_html_str' = UITrees[u].str
                      /\ mon' = MonRun(mon, SettleEvents)
                      /\ hist' = [ContainerScroll(CountScroll(logged), t, u,
                                                   fs.seen \cup descs) EXCEPT
                                    !.act = convert_action("scroll down", t, cont, None)]
                      /\ fsres' = fsres
                      /\ IF is_same
                           THEN /\ fs' = [fs EXCEPT !.tree = t, !.seen = @ \cup descs,
                                                    !.ci = @ + 1]
                                /\ pc' = "fsOuter"
                           ELSE /\ fs' = [fs EXCEPT !.tree = t, !.seen = @ \cup descs,
                                                    !.it = @ + 1]
                                /\ pc' = "fsInner"
  /\ UNCHANGED <<action_count, index, nreq, req, gn, dep, target_ele, grpTree, outcome>>

\* ------------------------------- Verifier.get_and_navigate_target_element
\* CodeConfig.enable_dependency
enable_dependency == TRUE

\* truth value of the api_name argument (line 394)
ApiTruthy(api) == api.kind # "none"

\* api_name.split('__') works on a str only
CanSplit(api) == api.kind = "str"

\* lines 387-408: after the scroll search for the requested target
GNAfterSearch ==
  /\ pc = "gn"
  /\ IF fsres # NoTarget
       THEN /\ target_ele' = fsres
            /\ pc' = "term"
            /\ UNCHANGED <<dep, outcome>>
       ELSE IF ApiTruthy(gn.api) /\ ~CanSplit(gn.api)
         THEN /\ Ends("AttributeError")
              /\ UNCHANGED <<dep, target_ele>>
       ELSE IF ApiTruthy(gn.api) /\ check_api_name_in_current_screen(gn.api.name, cache)
         THEN /\ Ends("XPathError")
              /\ UNCHANGED <<dep, target_ele>>
       ELSE IF ~enable_dependency
         THEN /\ Ends("NotFoundError")
              /\ UNCHANGED <<dep, target_ele>>
       ELSE /\ dep' = NoDep
            /\ target_ele' = fsres
            /\ pc' = "depWhile"
            /\ outcome' = outcome
  /\ UNCHANGED <<cache, last_screen_html_str, action_count, index, nreq, req, gn, fs,
                 fsres, grpTree, hist, mon>>

\* dependency_action[:MAX_DEPENDENCE_DEPTH] (line 416)
DepPaths(deps) ==
  SubSeq(deps, 1, IF Len(deps) < MAX_DEPENDENCE_DEPTH THEN Len(deps)
                  ELSE MAX_DEPENDENCE_DEPTH)

\* the while condition of line 409
DepWhileCond(t, counter) == t = NoTarget /\ counter < MAX_DEPENDENCE_WIDTH

\* lines 409-415: head of one replay round
DepWhile ==
  /\ pc = "depWhile"
  /\ IF ~DepWhileCond(target_ele, dep.counter)
       THEN /\ pc' = "gnEnd"
            /\ UNCHANGED <<dep, outcome>>
       ELSE IF ~CanSplit(gn.api)
         THEN /\ Ends("AttributeError")
              /\ dep' = dep
       ELSE IF get_api_by_name_raises(gn.api.name)
         THEN /\ Ends("KeyError")
              /\ dep' = dep
       ELSE IF get_dependency(gn.api.name) = << >>
         THEN /\ pc' = "gnEnd"
              /\ UNCHANGED <<dep, outcome>>
       ELSE /\ dep' = [dep EXCEPT !.count = 0]
            /\ pc' = "depPath"
            /\ outcome' = outcome
  /\ UNCHANGED <<cache, last_screen_html_str, action_count, index, nreq, req, gn, fs,
                 fsres, target_ele, grpTree, hist, mon>>

\* lines 505-510: after the for loop over the paths
AfterPaths(d) ==
  IF d.count = Len(get_dependency(gn.api.name))
    THEN /\ pc' = "gnEnd"
         /\ dep' = d
    ELSE /\ pc' = "depWhile"
         /\ dep' = [d EXCEPT !.counter = @ + 1]

\* lines 416-420: next path of the round
DepPath ==
  /\ pc = "depPath"
  /\ IF dep.count >= Len(DepPaths(get_dependency(gn.api.name)))
       THEN AfterPaths(dep)
       ELSE /\ dep' = [dep EXCEPT !.count = @ + 1, !.is_match = FALSE, !.dep_id = -1,
                                  !.idx = 0]
            /\ pc' = "depAct"
  /\ UNCHANGED <<cache, last_screen_html_str, action_count, index, nreq, req, gn, fs,
                 fsres, target_ele, grpTree, outcome, hist, mon>>

\* the path being walked, and its idx-th action in the order of line 421
ActionList == DepPaths(get_dependency(gn.api.name))[dep.count]
ReversedAt(action_list, idx) == action_list[Len(action_list) - idx]

\* a lookup that does not see the refreshed tree
target_lookup_none(u, xpath) == NoTarget

\* lines 426 and 497: element_tree.get_ele_by_xpath(xpath) on the cached tree
target_lookup(u, xpath) ==
  IF get_ele_by_xpath(u, xpath) # NoEle
    THEN [u |-> u, id |-> get_ele_by_xpath(u, xpath)]
    ELSE NoTarget

\* ApiDoc.api_xpath.get(action.name, None)
HasXPath(name) == name \in ApiNames

\* lines 421-461: one action of the path, up to its own element search
DepAct ==
  /\ pc = "depAct"
  /\ IF dep.idx >= Len(ActionList)
       THEN /\ pc' = "depPathEnd"
            /\ UNCHANGED <<cache, last_screen_html_str, fs, fsres, dep, target_ele,
                           hist, mon>>
       ELSE
         LET action == ReversedAt(ActionList, dep.idx)
             found == target_lookup(cache, gn.xpath)
         IN /\ target_ele' = found
            /\ IF found # NoTarget
                 THEN /\ pc' = "depPathEnd"
                      /\ UNCHANGED <<cache, last_screen_html_str, fs, fsres, dep, hist, mon>>
               ELSE IF action.screen_name # get_screen_name_by_skeleton(cache)
                 THEN /\ dep' = [dep EXCEPT !.idx = @ + 1]
                      /\ pc' = "depAct"
                      /\ UNCHANGED <<cache, last_screen_html_str, fs, fsres, hist, mon>>
               ELSE IF action.action_type = "back"
                 THEN \E u \in UIs :
                        /\ cache' = u
                        /\ last_screen_html_str' = UITrees[u].str
                        /\ mon' = MonRun(mon, SettleEvents)
                        /\ hist' = [hist EXCEPT !.logN = @ + 1, !.navs = @ + 1,
                                      !.rbacks = @ + 1,
                                      !.act = [NoAct EXCEPT !.action_type = "navigate_back"]]
                        /\ dep' = [dep EXCEPT !.is_match = TRUE, !.dep_id = dep.idx,
                                              !.idx = @ + 1]
                        /\ pc' = "depAct"
                        /\ UNCHANGED <<fs, fsres>>
               ELSE IF ~HasXPath(action.name)
                 THEN /\ dep' = [dep EXCEPT !.idx = @ + 1]
                      /\ pc' = "depAct"
                      /\ UNCHANGED <<cache, last_screen_html_str, fs, fsres, hist, mon>>
               ELSE /\ fs' = [NoFs EXCEPT !.xpath = ApiLoc(action.name), !.caller = "dep"]
                    /\ fsres' = NoTarget
                    /\ pc' = "fs"
                    /\ UNCHANGED <<cache, last_screen_html_str, dep, hist, mon>>
  /\ UNCHANGED <<action_count, index, nreq, req, gn, grpTree, outcome>>

\* lines 463-492: the action's element was searched; execute the action on it
DepAfterFS ==
  /\ pc = "depAfterFS"
  /\ IF fsres = NoTarget
       THEN /\ IF dep.is_match
                 THEN pc' = "depPathEnd" /\ dep' = dep
                 ELSE pc' = "depAct" /\ dep' = [dep EXCEPT !.idx = @ + 1]
            /\ UNCHANGED <<cache, last_screen_html_str, hist, mon>>
       ELSE \E u \in UIs :
              LET action == ReversedAt(ActionList, dep.idx)
              IN /\ cache' = u
                 /\ last_screen_html_str' = UITrees[u].str
                 /\ mon' = MonRun(mon, SettleEvents)
                 /\ hist' = [hist EXCEPT !.logN = @ + 1, !.navs = @ + 1,
                               !.act = convert_action(action.action_type, fsres.u,
                                                      fsres.id, action.text)]
                 /\ dep' = [dep EXCEPT !.is_match = TRUE, !.dep_id = dep.idx,
                                       !.idx = @ + 1]
                 /\ pc' = "depAct"
  /\ UNCHANGED <<action_count, index, nreq, req, gn, fs, fsres, target_ele, grpTree,
                 outcome>>

\* lines 494-503: after the actions of one path
DepPathEnd ==
  /\ pc = "depPathEnd"
  /\ IF dep.dep_id >= Len(ActionList) - 1
       THEN /\ target_ele' = target_lookup(cache, gn.xpath)
            /\ AfterPaths(dep)
       ELSE IF dep.is_match
         THEN /\ AfterPaths(dep)
              /\ target_ele' = target_ele
         ELSE /\ pc' = "depPath"
              /\ UNCHANGED <<dep, target_ele>>
  /\ UNCHANGED <<cache, last_screen_html_str, action_count, index, nreq, req, gn, fs,
                 fsres, grpTree, outcome, hist, mon>>

\* lines 512-527: the element, or the 'crashed' record and NotFoundError
GNEnd ==
  /\ pc = "gnEnd"
  /\ IF target_ele # NoTarget
       THEN /\ pc' = "term"
            /\ hist' = [hist EXCEPT !.foundBy = "replay"]
            /\ outcome' = outcome
       ELSE /\ hist' = [hist EXCEPT !.logC = @ + 1]
            /\ Ends("NotFoundError")
  /\ UNCHANGED <<cache, last_screen_html_str, action_count, index, nreq, req, gn, fs,
                 fsres, dep, target_ele, grpTree, mon>>

\* ------------------------------------------------- Verifier requests
\* the history of a request that starts
H0 == [NoHist EXCEPT !.count0 = action_count]

\* a request starts: the history of the previous one is dropped
Begin ==
  /\ pc = "idle"
  /\ nreq < MaxRequests
  /\ nreq' = nreq + 1

\* the action_type each Verifier method passes on (lines 588, 610, 630, 667)
VerifierActionType(op) ==
  CASE op = "tap" -> "touch"
    [] op = "long_tap" -> "touch"
    [] op = "set_text" -> "set_text"
    [] OTHER -> "scroll down"

\* the action_type each ElementList method passes on (lines 1173, 1190, 1207)
ElementListActionType(op) ==
  CASE op = "tap" -> "touch"
    [] op = "long_tap" -> "long_touch"
    [] OTHER -> "set_text"

Req(via, op, sel, h, action_type, arg) ==
  [via |-> via, op |-> op, sel |-> sel, h |-> h, action_type |-> action_type, arg |-> arg]

\* Verifier.check_api, lines 536-548: the 'crashed' record, then APIError
CheckApiFails(r) ==
  /\ \E u \in UIs : cache' = element_tree(cache, u)
  /\ req' = r
  /\ hist' = [H0 EXCEPT !.logC = 1]
  /\ Ends("APIError")
  /\ UNCHANGED <<last_screen_html_str, action_count, index, gn, fs, fsres, dep,
                 target_ele, grpTree, mon>>

\* Verifier.tap / long_tap / set_text / scroll up to _execute_action, with
\* Verifier.check_api: a str is looked up in api_xpaths, a handle gives its
\* xpath and the 1-tuple (api.api_name,) as api_name
VerifierAction ==
  /\ Begin
  /\ \E op \in {"tap", "long_tap", "set_text", "scroll"}, sel \in Sels :
       LET r == Req("engine", op, sel, NoSel.h, VerifierActionType(op),
                    IF op = "set_text" THEN "hi" ELSE None)
       IN IF sel.k = "str" /\ sel.name \notin ApiNames
            THEN CheckApiFails(r)
          ELSE /\ IF sel.k = "str"
                    THEN StartGN(r, ApiArg("str", sel.name), ApiLoc(sel.name))
                    ELSE StartGN(r, ApiArg("tuple", sel.h.api_name), sel.h.xpath)
               /\ hist' = H0
               /\ grpTree' = 0
               /\ UNCHANGED <<cache, last_screen_html_str, action_count, index, mon>>

\* an ElementList.check_api that lets None through
ElementList_check_api_accepts_None(sel) == FALSE

\* ElementList.check_api (lines 1115-1137) raises AttributeError: api is
\* neither a str nor an object with api_name
ElementList_check_api_raises(sel) == sel.k = "none"

\* Verifier._execute_action, lines 556-574, on the element found.
\* ElementList.tap / long_tap / set_text call it when no inner target is given
\* (lines 1174-1175) and then go on to check_api and _execute_action of
\* lines 1176-1177
TermVerifierExecute ==
  /\ pc = "term"
  /\ req.op \in {"tap", "long_tap", "set_text", "scroll"}
  /\ req.via = "engine" \/ req.sel.k = "none"
  /\ \E u \in UIs :
       /\ cache' = u
       /\ last_screen_html_str' = UITrees[u].str
       /\ mon' = MonRun(mon, SettleEvents)
       /\ hist' = [hist EXCEPT !.logA = @ + 1, !.terms = @ + 1,
                     !.act = convert_action(req.action_type, target_ele.u,
                                            target_ele.id, req.arg)]
       /\ action_count' = check_action_count(action_count)
       /\ IF req.via = "engine"
            THEN /\ Ends("ok")
                 /\ UNCHANGED <<req, gn, fs, fsres, dep, target_ele, grpTree>>
          ELSE IF ElementList_check_api_raises(req.sel)
            THEN /\ Ends("AttributeError")
                 /\ UNCHANGED <<req, gn, fs, fsres, dep, target_ele, grpTree>>
          ELSE /\ StartGN([req EXCEPT !.sel = HandleSel(req.h)], gn.api, gn.xpath)
               /\ grpTree' = u
  /\ UNCHANGED <<index, nreq>>

\* Verifier.get_text / get_attributes up to get_and_navigate_target_element
\* (lines 695-709): api_xpaths[selector] without a KeyError handler
VerifierGet ==
  /\ Begin
  /\ \E op \in {"get_text", "get_attributes"}, sel \in Sels :
       LET r == Req("engine", op, sel, NoSel.h, op, None)
       IN IF sel.k = "str" /\ sel.name \notin ApiNames
            THEN /\ req' = r
                 /\ hist' = H0
                 /\ Ends("KeyError")
                 /\ UNCHANGED <<cache, last_screen_html_str, action_count, index, gn,
                                fs, fsres, dep, target_ele, grpTree, mon>>
          ELSE /\ IF sel.k = "str"
                    THEN StartGN(r, ApiArg("str", sel.name), ApiLoc(sel.name))
                  ELSE IF sel.h.api_name # << >>
                    THEN StartGN(r, ApiArg("str", sel.h.api_name), sel.h.xpath)
                  ELSE StartGN(r, ApiArg("list", << >>), sel.h.xpath)
               /\ hist' = H0
               /\ grpTree' = 0
               /\ UNCHANGED <<cache, last_screen_html_str, action_count, index, mon>>

\* Verifier.get_text / get_attributes after the element is found (lines 711-728)
TermVerifierGet ==
  /\ pc = "term"
  /\ req.via = "engine"
  /\ req.op \in {"get_text", "get_attributes"}
  /\ hist' = [hist EXCEPT !.logA = @ + 1]
  /\ action_count' = check_action_count(action_count)
  /\ Ends("ok")
  /\ UNCHANGED <<cache, last_screen_html_str, index, nreq, req, gn, fs, fsres, dep,
                 target_ele, grpTree, mon>>

\* a back() that leaves the fingerprint as it is
VerifierBack_skips_check ==
  /\ Begin
  /\ \E u0 \in UIs, u1 \in UIs, u2 \in UIs :
       LET stale == element_tree(cache, u0)
           screen_name == get_screen_name_by_skeleton(stale)
           reopen == screen_name = None
           now == IF reopen THEN u2 ELSE u1
       IN /\ grpTree' = stale
          /\ cache' = now
          /\ last_screen_html_str' = last_screen_html_str
          /\ mon' = MonRun(mon, IF reopen
                                  THEN <<"exec", "sleep", "refresh",
                                         "exec", "sleep", "refresh", "fp">>
                                  ELSE SettleEvents)
          /\ hist' = [H0 EXCEPT !.logA = 1, !.backs = 1,
                        !.opens = IF reopen THEN 1 ELSE 0,
                        !.act = [NoAct EXCEPT !.action_type =
                                   IF reopen THEN "open_app" ELSE "navigate_back"]]
  /\ req' = Req("engine", "back", NoSel, NoSel.h, "back", None)
  /\ action_count' = check_action_count(action_count)
  /\ Ends("ok")
  /\ UNCHANGED <<index, gn, fs, fsres, dep, target_ele>>

\* Verifier.back (lines 801-831): the screen test of line 824 reads the
\* element_tree local taken at line 802
VerifierBack ==
  /\ Begin
  /\ \E u0 \in UIs, u1 \in UIs, u2 \in UIs :
       LET stale == element_tree(cache, u0)
           screen_name == get_screen_name_by_skeleton(stale)
           reopen == screen_name = None
           now == IF reopen THEN u2 ELSE u1
       IN /\ grpTree' = stale
          /\ cache' = now
          /\ last_screen_html_str' = UITrees[now].str
          /\ mon' = MonRun(mon, IF reopen
                                  THEN <<"exec", "sleep", "refresh",
                                         "exec", "sleep", "refresh", "fp">>
                                  ELSE SettleEvents)
          /\ hist' = [H0 EXCEPT !.logA = 1, !.backs = 1,
                        !.opens = IF reopen THEN 1 ELSE 0,
                        !.act = [NoAct EXCEPT !.action_type =
                                   IF reopen THEN "open_app" ELSE "navigate_back"]]
  /\ req' = Req("engine", "back", NoSel, NoSel.h, "back", None)
  /\ action_count' = check_action_count(action_count)
  /\ Ends("ok")
  /\ UNCHANGED <<index, gn, fs, fsres, dep, target_ele>>

\* ----------------------------------------------- ElementList requests
\* the api_name a handle passes to get_and_navigate_target_element from
\* __getitem__ / __next__ / match: its name, else its xpath list
HandleApiOrXPath(h) ==
  IF h.api_name # << >> THEN ApiArg("str", h.api_name) ELSE ApiArg("list", << >>)

\* the api_name a handle passes as self.api_name: its name, else None
HandleApi(h) ==
  IF h.api_name # << >> THEN ApiArg("str", h.api_name) ELSE ApiArg("none", << >>)

\* a constructor that reads the current tree to resolve its locator
ElementListInit_fetches ==
  /\ Begin
  /\ \E name \in ApiNames \cup {A_nope} :
       /\ req' = Req("group", "init", StrSel(name), NoSel.h, None, None)
       /\ Ends(IF name \in ApiNames THEN "ok" ELSE "APIError")
  /\ hist' = H0
  /\ \E u \in UIs : cache' = element_tree(cache, u)
  /\ UNCHANGED <<last_screen_html_str, action_count, index, gn, fs, fsres,
                 dep, target_ele, grpTree, mon>>

\* ElementList.__init__ with check_api_name (lines 846-849, 878-881)
ElementListInit ==
  /\ Begin
  /\ \E name \in ApiNames \cup {A_nope} :
       /\ req' = Req("group", "init", StrSel(name), NoSel.h, None, None)
       /\ Ends(IF name \in ApiNames THEN "ok" ELSE "APIError")
  /\ hist' = H0
  /\ UNCHANGED <<cache, last_screen_html_str, action_count, index, gn, fs, fsres,
                 dep, target_ele, grpTree, mon>>

\* selectors of __getitem__ and data of match
IndexArgs == {"0", "1", "7", "key"}
IndexOf(arg) == CASE arg = "0" -> 0 [] arg = "1" -> 1 [] OTHER -> 7
MatchArgs == {"Go", "zzz", "dict"}

\* ElementList.__getitem__ / __next__ / match up to
\* get_and_navigate_target_element (lines 898-906, 948-956, 991-999)
ElementListQuery ==
  /\ Begin
  /\ \E h \in Handles, op \in {"getitem", "next", "match"} :
       \E arg \in (IF op = "getitem" THEN IndexArgs
                   ELSE IF op = "match" THEN MatchArgs ELSE {None}) :
         StartGN(Req("group", op, NoSel, h, op, arg), HandleApiOrXPath(h), h.xpath)
  /\ hist' = H0
  /\ grpTree' = 0
  /\ UNCHANGED <<cache, last_screen_html_str, action_count, index, mon>>

\* ElementList.__len__ (line 1052): one positional argument too many
ElementListLen ==
  /\ Begin
  /\ \E h \in Handles : req' = Req("group", "len", NoSel, h, "len", None)
  /\ hist' = H0
  /\ Ends("TypeError")
  /\ UNCHANGED <<cache, last_screen_html_str, action_count, index, gn, fs, fsres,
                 dep, target_ele, grpTree, mon>>

\* ElementTree.get_children_by_idx: the child id, NoEle for None
get_children_by_idx(u, id, n) ==
  IF n < Len(UITrees[u].ele[id].children) THEN UITrees[u].ele[id].children[n + 1]
  ELSE NoEle

\* ElementTree.node.get_leaves: the leaves below a node
RECURSIVE get_leaves(_, _)
get_leaves(u, id) ==
  UNION { IF UITrees[u].ele[c].children = << >> THEN {c} ELSE get_leaves(u, c) :
          c \in {UITrees[u].ele[id].children[k] :
                   k \in 1..Len(UITrees[u].ele[id].children)} }

\* ElementTree.get_children_by_ele: the leaves in ascending order of id
RECURSIVE SortedSeq(_)
SortedSeq(S) ==
  IF S = {} THEN << >>
  ELSE LET m == CHOOSE x \in S : \A y \in S : x <= y IN <<m>> \o SortedSeq(S \ {m})
get_children_by_ele(u, id) == SortedSeq(get_leaves(u, id))

\* ElementList.__getitem__ after the group is found (lines 908-930)
TermGetItem ==
  /\ pc = "term"
  /\ req.op = "getitem"
  /\ hist' = [hist EXCEPT !.logA = @ + 1]
  /\ IF req.arg # "key"
       THEN /\ Ends(IF get_children_by_idx(cache, target_ele.id, IndexOf(req.arg)) # NoEle
                      THEN "ok" ELSE "AttributeError")
            /\ action_count' = action_count
       ELSE /\ action_count' = check_action_count(action_count)
            /\ Ends("ActionError")
  /\ UNCHANGED <<cache, last_screen_html_str, index, nreq, req, gn, fs, fsres, dep,
                 target_ele, grpTree, mon>>

\* ElementList.__next__ after the group is found (lines 958-982)
TermNext ==
  /\ pc = "term"
  /\ req.op = "next"
  /\ hist' = [hist EXCEPT !.logA = @ + 1]
  /\ LET ele_list_children == get_children_by_ele(cache, target_ele.id) IN
     IF ele_list_children = << >>
       THEN /\ Ends("StopIteration")
            /\ UNCHANGED <<action_count, index>>
       ELSE /\ action_count' = check_action_count(action_count)
            /\ IF index[req.h] < Len(ele_list_children)
                 THEN /\ index' = [index EXCEPT ![req.h] = @ + 1]
                      /\ Ends("ok")
                 ELSE /\ index' = [index EXCEPT ![req.h] = 0]
                      /\ Ends("StopIteration")
  /\ UNCHANGED <<cache, last_screen_html_str, nreq, req, gn, fs, fsres, dep,
                 target_ele, grpTree, mon>>

\* EleAttr.is_match on the text of data
is_match(u, id, data) == UITrees[u].ele[id].text = data

\* ElementList.match after the group is found (lines 1001-1035): a dict is
\* compared with EleAttr.dict(), which has no 'selected' or 'checked' key
TermMatch ==
  /\ pc = "term"
  /\ req.op = "match"
  /\ hist' = [hist EXCEPT !.logA = @ + 1]
  /\ LET ele_list_children == get_children_by_ele(cache, target_ele.id)
         matched == {k \in 1..Len(ele_list_children) :
                       is_match(cache, ele_list_children[k], req.arg)}
     IN IF req.arg = "dict" /\ ele_list_children # << >>
          THEN /\ Ends("KeyError")
               /\ action_count' = action_count
          ELSE /\ action_count' = check_action_count(action_count)
               /\ Ends(IF matched = {} THEN "ActionError" ELSE "ok")
  /\ UNCHANGED <<cache, last_screen_html_str, index, nreq, req, gn, fs, fsres, dep,
                 target_ele, grpTree, mon>>

\* ElementList.check_api (lines 1115-1137): the locator of the inner target
InnerXPath(sel) == IF sel.k = "str" THEN ApiLoc(sel.name) ELSE sel.h.xpath

\* ElementList.tap / long_tap / set_text (lines 1162-1211): without inner
\* target Verifier._execute_action on the handle itself; with one, check_api
\* and find_target_element_in_group, which keeps the tree of line 1089
ElementListAction ==
  /\ Begin
  /\ \E h \in Handles, op \in {"tap", "long_tap", "set_text"}, sel \in Sels \cup {NoSel} :
       LET r == Req("group", op, sel, h, ElementListActionType(op),
                    IF op = "set_text" THEN "hi" ELSE None)
       IN IF sel.k = "str" /\ sel.name \notin ApiNames
            THEN CheckApiFails(r)
          ELSE /\ StartGN(r, HandleApi(h), h.xpath)
               /\ hist' = H0
               /\ \E u \in UIs :
                    /\ cache' = IF sel.k = "none" THEN cache ELSE element_tree(cache, u)
                    /\ grpTree' = IF sel.k = "none" THEN 0 ELSE element_tree(cache, u)
               /\ UNCHANGED <<last_screen_html_str, action_count, index, mon>>

\* the ids ElementTree.extract_subtree collects below ele_id (lines 755-764)
RECURSIVE extract_subtree(_, _)
extract_subtree(u, id) ==
  IF id \notin DOMAIN UITrees[u].ele THEN {}
  ELSE {id} \cup UNION { extract_subtree(u, UITrees[u].ele[id].children[k]) :
                           k \in 1..Len(UITrees[u].ele[id].children) }

\* subtree.get_ele_by_xpath of line 1093: the match of the locator when it
\* lies in the subtree (the trees above are numbered in DFS order, which the
\* rebuild of the subtree keeps)
find_in_subtree(u, group, loc) ==
  IF get_ele_by_xpath(u, loc) \in extract_subtree(u, group)
    THEN get_ele_by_xpath(u, loc) ELSE NoEle

\* ElementList._execute_action (lines 1139-1160) after the group is found,
\* with find_target_element_in_group lines 1091-1113: the failure branch
\* reads element_tree.pixels, which an ElementTree does not have
TermGroupExecute ==
  /\ pc = "term"
  /\ req.via = "group"
  /\ req.op \in {"tap", "long_tap", "set_text"}
  /\ req.sel.k # "none"
  /\ LET inner == find_in_subtree(grpTree, target_ele.id, InnerXPath(req.sel)) IN
     IF inner = NoEle
       THEN /\ Ends("AttributeError")
            /\ UNCHANGED <<cache, last_screen_html_str, action_count, hist, mon>>
       ELSE \E u \in UIs :
              /\ cache' = u
              /\ last_screen_html_str' = UITrees[u].str
              /\ mon' = MonRun(mon, SettleEvents)
              /\ hist' = [hist EXCEPT !.logA = @ + 1, !.terms = @ + 1,
                            !.act = convert_action(req.action_type, grpTree, inner,
                                                   req.arg)]
              /\ action_count' = check_action_count(action_count)
              /\ Ends("ok")
  /\ UNCHANGED <<index, nreq, req, gn, fs, fsres, dep, target_ele, grpTree>>

\* ElementList.get_text / get_attributes (lines 1227-1253, 1287-1313): with
\* a selector, check_api by hand and find_target_element_in_group called
\* with one argument too many; without one, the handle itself is resolved
ElementListGet ==
  /\ Begin
  /\ \E h \in Handles, op \in {"get_text", "get_attributes"}, sel \in Sels \cup {NoSel} :
       LET r == Req("group", op, sel, h, op, None)
       IN IF sel.k = "str" /\ sel.name \notin ApiNames
            THEN CheckApiFails(r)
          ELSE IF sel.k # "none"
            THEN /\ req' = r
                 /\ hist' = H0
                 /\ Ends("TypeError")
                 /\ UNCHANGED <<cache, last_screen_html_str, action_count, index, gn,
                                fs, fsres, dep, target_ele, grpTree, mon>>
          ELSE /\ StartGN(r, HandleApi(h), h.xpath)
               /\ hist' = H0
               /\ grpTree' = 0
               /\ UNCHANGED <<cache, last_screen_html_str, action_count, index, mon>>

\* lines 1255-1265 / 1315-1325 after the handle itself is found: the log
\* call reads element_selector_name, bound in the other branch only
TermGroupGet ==
  /\ pc = "term"
  /\ req.via = "group"
  /\ req.op \in {"get_text", "get_attributes"}
  /\ Ends("UnboundLocalError")
  /\ UNCHANGED <<cache, last_screen_html_str, action_count, index, nreq, req, gn, fs,
                 fsres, dep, target_ele, grpTree, hist, mon>>

\* ------------------------------------------- ElementTree construction
\* raw ids are drawn from 0..MaxRawId, a raw map holds at most MaxNodes nodes
MaxRawId == 3
MaxNodes == 3

Range(q) == {q[k] : k \in DOMAIN q}
Reverse(q) == [k \in 1..Len(q) |-> q[Len(q) + 1 - k]]

RECURSIVE ConcatAll(_)
ConcatAll(qs) == IF qs = << >> THEN << >> ELSE Head(qs) \o ConcatAll(Tail(qs))

\* the attributes of a raw element that the serialization shows
RawTag(id) == IF id = 0 THEN "div" ELSE "button"
RawRid(id) == IF id % 2 = 1 THEN "odd" ELSE "even"

\* EleAttr as _build_tree gets it: id, child ids, and the attributes
RawEle(id, children) ==
  [id |-> id, children |-> children, tag |-> RawTag(id), rid |-> RawRid(id)]

\* an id that is the key of no raw map
AbsentId == MaxRawId + 1

RECURSIVE ReachesRoot(_, _, _)
ReachesRoot(parent, k, n) ==
  k = 0 \/ (n > 0 /\ ReachesRoot(parent, parent[k], n - 1))

\* the parent functions that make the keys K a tree below key 0
Parents(K) ==
  {parent \in [K \ {0} -> K] :
     \A k \in K \ {0} : ReachesRoot(parent, k, Cardinality(K))}

\* the raw map, an ordered dict written as the sequence of its entries: the
\* children of a key in ascending or descending order, and after the
\* children of key d a child id that the map does not have
RawMap(K, parent, desc, d) ==
  LET keys == SortedSeq(K)
      kids(k) == SortedSeq({c \in K \ {0} : parent[c] = k})
      ordered(k) == IF desc THEN Reverse(kids(k)) ELSE kids(k)
  IN [i \in 1..Len(keys) |->
        RawEle(keys[i], ordered(keys[i]) \o (IF d = keys[i] THEN <<AbsentId>> ELSE << >>))]

\* the arguments of ElementTree(ele_attrs, valid_ele_ids, root_id = 0)
RawInputs ==
  UNION { UNION { { [kind |-> "raw", ele_attrs |-> RawMap(K, parent, desc, d),
                     valid_ele_ids |-> SortedSeq(V), root_id |-> 0] :
                    desc \in BOOLEAN, d \in K \cup {NoEle}, V \in SUBSET K } :
                  parent \in Parents(K) } :
          K \in {K \in SUBSET (0..MaxRawId) : 0 \in K /\ Cardinality(K) <= MaxNodes} }

\* dict access: the keys of the raw map and ele_map[k]
MapKeys(m) == {m[i].id : i \in 1..Len(m)}
MapGet(m, k) == m[CHOOSE i \in 1..Len(m) : m[i].id = k]

\* the children of a node in the order the map lists its entries
build_children_in_map_order(m, id) ==
  SelectSeq([i \in 1..Len(m) |-> m[i].id],
            LAMBDA c : c \in Range(MapGet(m, id).children))

\* _build_tree lines 445-457: the child nodes of a node, children that the
\* map does not have skipped
build_children(m, id) ==
  SelectSeq(MapGet(m, id).children, LAMBDA c : c \in MapKeys(m))

\* lines 459-467: the nodes in depth-first order
RECURSIVE dfs_order(_, _)
dfs_order(m, id) ==
  <<id>> \o ConcatAll([k \in 1..Len(build_children(m, id)) |->
                          dfs_order(m, build_children(m, id)[k])])

\* each node gets the rank of its own id: 0, 1, 2, ...
idx_map_by_rank(m, root) ==
  [n \in Range(dfs_order(m, root)) |->
     Cardinality({n2 \in Range(dfs_order(m, root)) : n2 < n})]

\* the k-th node in depth-first order gets the id k - 1
idx_map_from_zero(m, root) ==
  [n \in Range(dfs_order(m, root)) |->
     (CHOOSE k \in 1..Len(dfs_order(m, root)) : dfs_order(m, root)[k] = n) - 1]

\* lines 469-471: the k-th node in depth-first order gets the k-th smallest id
idx_map(m, root) ==
  LET dfs == dfs_order(m, root)
      valid_node_ids == SortedSeq(Range(dfs))
  IN [n \in Range(dfs) |-> valid_node_ids[CHOOSE k \in 1..Len(dfs) : dfs[k] = n]]

\* lines 481-482: ele.children[i] = idx_map[child] raises KeyError
remap_raises(m, root) ==
  \E n \in Range(dfs_order(m, root)) :
     \E c \in Range(MapGet(m, n).children) : c \notin DOMAIN idx_map(m, root)

\* node.get_leaves over the child lists kids
RECURSIVE node_get_leaves(_, _)
node_get_leaves(kids, i) ==
  UNION { IF kids[kids[i][k]] = << >> THEN {kids[i][k]}
          ELSE node_get_leaves(kids, kids[i][k]) : k \in 1..Len(kids[i]) }

\* the nodes node.drop_invalid_nodes visits from node i
RECURSIVE drop_visits(_, _, _)
drop_visits(kids, valid, i) ==
  {i} \cup (IF node_get_leaves(kids, i) \cap valid # {}
              THEN UNION {drop_visits(kids, valid, kids[i][k]) : k \in 1..Len(kids[i])}
              ELSE {})

\* ElementTree._build_tree: status "KeyError" when it raises, else the tree.
\* ele is the new ele_map, kids and leaves are children and leaves of the
\* node objects after drop_invalid_nodes, valid is _valid_ele_ids without
\* its None
build_tree(m, valid_ele_ids, root_id) ==
  IF remap_raises(m, root_id) THEN [status |-> "KeyError"]
  ELSE
    LET im == idx_map(m, root_id)
        ids == {im[n] : n \in DOMAIN im}
        orig == [i \in ids |-> CHOOSE n \in DOMAIN im : im[n] = i]
        ele == [i \in ids |->
                  [id |-> i,
                   children |-> [k \in 1..Len(MapGet(m, orig[i]).children) |->
                                    im[MapGet(m, orig[i]).children[k]]],
                   tag |-> MapGet(m, orig[i]).tag,
                   rid |-> MapGet(m, orig[i]).rid]]
        valid == {im[v] : v \in Range(valid_ele_ids) \cap DOMAIN im}
        kids0 == [i \in ids |-> [k \in 1..Len(build_children(m, orig[i])) |->
                                   im[build_children(m, orig[i])[k]]]]
        visited == drop_visits(kids0, valid, im[root_id])
        in_set(i) == node_get_leaves(kids0, i) \cap valid
    IN [status |-> "ok",
        root |-> im[root_id],
        ele |-> ele,
        valid |-> valid,
        orig |-> orig,
        kids |-> [i \in ids |-> IF i \in visited /\ in_set(i) = {} THEN << >>
                                ELSE kids0[i]],
        leaves |-> [i \in ids |-> IF i \in visited THEN in_set(i)
                                  ELSE node_get_leaves(kids0, i)]]

\* ElementTree.get_str: the document, one entry per element in document
\* order with its id, tag, resource_id and depth
RECURSIVE get_str(_, _, _)
get_str(t, i, depth) ==
  <<[id |-> i, tag |-> t.ele[i].tag, rid |-> t.ele[i].rid, depth |-> depth]>>
    \o ConcatAll([k \in 1..Len(t.kids[i]) |-> get_str(t, t.kids[i][k], depth + 1)])

\* locators //tag, //tag[@resource_id='r'] and //tag[@id='n']
XLoc(tag, rid, id) == [tag |-> tag, rid |-> rid, id |-> id]
Locators ==
  {XLoc(tag, rid, NoEle) : tag \in {"div", "button"}, rid \in {None, "odd", "even"}}
    \cup {XLoc(tag, None, id) : tag \in {"div", "button"}, id \in 0..MaxRawId}

\* the element of the document satisfies the locator
XMatch(e, x) ==
  /\ e.tag = x.tag
  /\ x.rid = None \/ e.rid = x.rid
  /\ x.id = NoEle \/ e.id = x.id

\* ElementTree._get_ele_by_xpath: the id of ele_map.get(id) for the first
\* match in document order, NoEle for None
tree_get_ele_by_xpath(t, x) ==
  LET doc == get_str(t, t.root, 0)
      eles == {k \in 1..Len(doc) : XMatch(doc[k], x)}
  IN IF eles = {} THEN NoEle
     ELSE doc[CHOOSE k \in eles : \A k2 \in eles : k <= k2].id

\* extract_subtree lines 755-764: the entries of _ele_attr in insertion order
RECURSIVE subtree_ele_attr(_, _)
subtree_ele_attr(t, que) ==
  IF que = << >> THEN << >>
  ELSE IF Head(que) \notin DOMAIN t.ele THEN subtree_ele_attr(t, Tail(que))
  ELSE <<t.ele[Head(que)]>>
         \o subtree_ele_attr(t, Tail(que) \o t.ele[Head(que)].children)

\* a subtree built with no valid id
subtree_valid_ele_ids_none(t, ele_attr) == << >>

\* line 766: the valid ids among the keys of _ele_attr
subtree_valid_ele_ids(t, ele_attr) == SortedSeq(MapKeys(ele_attr) \cap t.valid)

\* ElementTree.extract_subtree: the status is "None" when it returns None
tree_extract_subtree(t, ele_id) ==
  IF ele_id \notin DOMAIN t.ele THEN [status |-> None]
  ELSE build_tree(subtree_ele_attr(t, <<ele_id>>),
                  subtree_valid_ele_ids(t, subtree_ele_attr(t, <<ele_id>>)),
                  ele_id)

\* the lookup in a subtree that may be None
subtree_get_ele_by_xpath(sub, x) ==
  IF sub.status # "ok" THEN NoEle ELSE tree_get_ele_by_xpath(sub, x)

\* the ele_map of the tree after extract_subtree: the subtree is built from
\* the EleAttr objects of the tree itself (line 762), and _build_tree writes
\* the id and the children of each of them in place (lines 476-482)
ele_map_after_extract(t, sub) ==
  [i \in DOMAIN t.ele |->
     IF sub.status = "ok" /\ \E n \in DOMAIN sub.ele : sub.orig[n] = i
       THEN sub.ele[CHOOSE n \in DOMAIN sub.ele : sub.orig[n] = i]
       ELSE t.ele[i]]

\* ------------------------------------- specification of the tree functions
TreeInit ==
  /\ EngineInit
  /\ inp \in RawInputs
  /\ out = NoOut

\* ElementTree(ele_attrs, valid_ele_ids)
BuildTree ==
  /\ out = NoOut
  /\ out' = [stage |-> "built",
             tree |-> build_tree(inp.ele_attrs, inp.valid_ele_ids, inp.root_id)]
  /\ UNCHANGED <<inp, engineVars>>

\* tree.extract_subtree(ele_id)
ExtractSubtree ==
  /\ out.stage = "built"
  /\ out.tree.status = "ok"
  /\ \E ele_id \in DOMAIN out.tree.ele \cup {AbsentId} :
       out' = [stage |-> "sub", tree |-> out.tree, ele_id |-> ele_id,
               sub |-> tree_extract_subtree(out.tree, ele_id),
               ele_map |-> ele_map_after_extract(out.tree,
                             tree_extract_subtree(out.tree, ele_id))]
  /\ UNCHANGED <<inp, engineVars>>

\* subtree.get_ele_by_xpath(x) next to tree.get_ele_by_xpath(x)
GetEleByXPath ==
  /\ out.stage = "sub"
  /\ \E x \in Locators :
       out' = [stage |-> "found", tree |-> out.tree, ele_id |-> out.ele_id,
               sub |-> out.sub, x |-> x,
               in_tree |-> tree_get_ele_by_xpath(out.tree, x),
               in_sub |-> subtree_get_ele_by_xpath(out.sub, x)]
  /\ UNCHANGED <<inp, engineVars>>

TreeNext ==
  \/ BuildTree
  \/ ExtractSubtree
  \/ GetEleByXPath

TreeSpec == TreeInit /\ [][TreeNext]_vars

\* ------------------------------------------------------------ HTMLSkeleton
MaxKids == 2

\* the tags and resource ids of a tree, position by position
Shape(name, rid, kids) == [name |-> name, rid |-> rid, kids |-> kids]

\* what a child of the root can be
ChildShapes ==
  { Shape("button", None, << >>), Shape("button", "r", << >>),
    Shape("p", None, << >>), Shape("div", None, << >>),
    Shape("div", None, << Shape("button", None, << >>) >>) }

\* trees with a div root and at most MaxKids children in a row
Shapes ==
  {Shape("div", None, kids) :
     kids \in UNION {[1..n -> ChildShapes] : n \in 0..MaxKids}}

\* what the tags and resource ids leave open: which elements have text, whether
\* the elements have alt and status, and where the ids start
Decorations ==
  [text : {"none", "leaves", "all"}, attrs : BOOLEAN, id0 : {0, 1}]

RECURSIVE ShapeSize(_)
ShapeSize(s) ==
  1 + Len(ConcatAll([k \in 1..Len(s.kids) |-> [j \in 1..ShapeSize(s.kids[k]) |-> j]]))

\* a Tag or a NavigableString of a soup; a string has name "#text"
Tag(name, id, rid, alt, status, contents) ==
  [name |-> name, id |-> id, resource_id |-> rid, alt |-> alt,
   status |-> status, text |-> << >>, contents |-> contents]
NavigableString(text) ==
  [name |-> "#text", id |-> NoEle, resource_id |-> None, alt |-> None,
   status |-> None, text |-> text, contents |-> << >>]
isTag(e) == e.name # "#text"

\* the first id of child k when the node has the id id
ChildId(s, id, k) ==
  id + 1 + Len(ConcatAll([j \in 1..(k - 1) |-> [i \in 1..ShapeSize(s.kids[j]) |-> i]]))

\* desc_html_start, _str and the parser: the element of the shape with its
\* id, alt, status and content, a newline string after the start tag of an
\* element that has children and after each child
RECURSIVE parsed_str(_, _, _)
parsed_str(s, d, id) ==
  LET content == IF d.text = "all" \/ (d.text = "leaves" /\ s.kids = << >>)
                   THEN <<"content">> ELSE << >>
      alt == IF d.attrs THEN "alt" ELSE None
      status == IF d.attrs /\ s.kids = << >> THEN "selected" ELSE None
  IN Tag(s.name, id, s.rid, alt, status,
         IF s.kids = << >>
           THEN (IF content = << >> THEN << >> ELSE <<NavigableString(content)>>)
           ELSE <<NavigableString(content \o <<"\n">>)>>
                  \o ConcatAll([k \in 1..Len(s.kids) |->
                        <<parsed_str(s.kids[k], d, ChildId(s, id, k)),
                          NavigableString(<<"\n">>)>>]))

\* BeautifulSoup(html, 'html.parser') of the str of a tree
BeautifulSoup(s, d) ==
  Tag("[document]", NoEle, None, None, None,
      <<parsed_str(s, d, d.id0), NavigableString(<<"\n">>)>>)

\* for content in tag.contents: content.extract() for the strings, the list
\* changing under the loop
RECURSIVE extract_strings(_, _)
extract_strings(contents, i) ==
  IF i > Len(contents) THEN contents
  ELSE IF isTag(contents[i]) THEN extract_strings(contents, i + 1)
  ELSE extract_strings([k \in 1..(Len(contents) - 1) |->
                          IF k < i THEN contents[k] ELSE contents[k + 1]], i + 1)

\* a tag that keeps its id
keep_id(tag) == tag.id

\* lines 923-927: every attribute but resource_id is deleted
removed_id(tag) == NoEle

\* _remove_attributes for a tag and the tags below it
RECURSIVE remove_attributes_tag(_)
remove_attributes_tag(tag) ==
  LET contents == extract_strings(tag.contents, 1)
  IN Tag(tag.name, removed_id(tag), tag.resource_id, None, None,
         [k \in 1..Len(contents) |->
            IF isTag(contents[k]) THEN remove_attributes_tag(contents[k])
            ELSE contents[k]])

\* HTMLSkeleton._remove_attributes: find_all(True) does not have the soup
remove_attributes(soup) ==
  [soup EXCEPT !.contents =
     [k \in 1..Len(soup.contents) |->
        IF isTag(soup.contents[k]) THEN remove_attributes_tag(soup.contents[k])
        ELSE soup.contents[k]]]

\* a signature of the tag name alone
child_signature_by_name(tag) == <<tag.name>>

\* child_signature: the name and the sorted attributes
child_signature(tag) == <<tag.name, tag.id, tag.resource_id, tag.alt, tag.status>>

\* _remove_repeated_siblings: the child tags, the first of each signature
RECURSIVE remove_repeated_siblings(_)
remove_repeated_siblings(tag) ==
  LET children == SelectSeq(tag.contents, isTag)
      first(k) == \A j \in 1..(k - 1) :
                     child_signature(children[j]) # child_signature(children[k])
      keep == {k \in 1..Len(children) : first(k)}
      unique_children == [i \in 1..Cardinality(keep) |-> children[SortedSeq(keep)[i]]]
  IN [tag EXCEPT !.contents =
        [i \in 1..Len(unique_children) |-> remove_repeated_siblings(unique_children[i])]]

\* HTMLSkeleton(html): the soup of the skeleton
HTMLSkeleton(soup) == remove_repeated_siblings(remove_attributes(soup))

\* HTMLSkeleton.__eq__: self.soup == value.soup
skeleton_eq(sk1, sk2) == sk1 = sk2

\* a skeleton that is no tag: compare_and_extract_common returned None
NoTag == Tag("None", NoEle, None, None, None, << >>)

\* compare_and_extract_common
RECURSIVE compare_and_extract_common(_, _)
compare_and_extract_common(node1, node2) ==
  IF node1.name # node2.name THEN NoTag
  ELSE
    LET c1 == SelectSeq(node1.contents, isTag)
        c2 == SelectSeq(node2.contents, isTag)
        n == IF Len(c1) < Len(c2) THEN Len(c1) ELSE Len(c2)
        common_children ==
          SelectSeq([k \in 1..n |-> compare_and_extract_common(c1[k], c2[k])],
                    LAMBDA c : c # NoTag)
    IN Tag(node1.name, NoEle,
           IF node1.resource_id = node2.resource_id THEN node1.resource_id ELSE None,
           None, None, common_children)

\* HTMLSkeleton.extract_common_skeleton: the soup of the result, which is
\* the common tag itself or the soup of the empty string
extract_common_skeleton(sk1, sk2) ==
  LET common_structure == compare_and_extract_common(sk1.contents[1], sk2.contents[1])
  IN IF common_structure = NoTag
       THEN Tag("[document]", NoEle, None, None, None, << >>)
       ELSE common_structure

\* HTMLSkeleton.count: the tags below the soup
RECURSIVE count(_)
count(soup) ==
  Len(ConcatAll([k \in 1..Len(soup.contents) |->
        IF isTag(soup.contents[k])
          THEN [j \in 1..(1 + count(soup.contents[k])) |-> j] ELSE << >>]))

\* the loop of lines 219-224 over the screens from position k on
RECURSIVE best_screen(_, _, _, _, _)
best_screen(catalog, skeleton, k, cnt, screen_name) ==
  IF k > Len(catalog) THEN screen_name
  ELSE LET _count == count(extract_common_skeleton(catalog[k].skeleton, skeleton))
       IN IF _count > cnt
            THEN best_screen(catalog, skeleton, k + 1, _count, catalog[k].screen_name)
            ELSE best_screen(catalog, skeleton, k + 1, cnt, screen_name)

\* the screens whose skeleton string is the string of the skeleton
ExactScreens(catalog, skeleton) ==
  {k \in 1..Len(catalog) : skeleton_eq(catalog[k].skeleton, skeleton)}

\* ApiDoc.get_screen_name_by_skeleton for a catalog given as the sequence
\* of its screens; skeleton_str2screen_name has the last screen of a string
ApiDoc_get_screen_name_by_skeleton(catalog, skeleton) ==
  IF ExactScreens(catalog, skeleton) # {}
    THEN catalog[CHOOSE k \in ExactScreens(catalog, skeleton) :
                   \A k2 \in ExactScreens(catalog, skeleton) : k2 <= k].screen_name
    ELSE best_screen(catalog, skeleton, 1, 0, None)

\* --------------------------------- specification of the skeleton functions
\* the skeletons of the trees
Skeletons ==
  {HTMLSkeleton(BeautifulSoup(s, [text |-> "none", attrs |-> FALSE, id0 |-> 0])) :
     s \in Shapes}

\* a catalog of two screens and a live skeleton, or one tree shape written
\* out twice
SkeletonInputs ==
  {[kind |-> "screen",
    catalog |-> <<[screen_name |-> "A", skeleton |-> sa],
                  [screen_name |-> "B", skeleton |-> sb]>>,
    skeleton |-> sk] : sa \in Skeletons, sb \in Skeletons, sk \in Skeletons}
    \cup
  {[kind |-> "pair", shape |-> s, d1 |-> d1, d2 |-> d2] :
     s \in Shapes, d1 \in Decorations, d2 \in Decorations}

SkeletonInit ==
  /\ EngineInit
  /\ inp \in SkeletonInputs
  /\ out = NoOut

\* doc.get_screen_name_by_skeleton(skeleton)
GetScreenNameBySkeleton ==
  /\ inp.kind = "screen"
  /\ out = NoOut
  /\ out' = [stage |-> "resolved",
             screen_name |-> ApiDoc_get_screen_name_by_skeleton(inp.catalog, inp.skeleton)]
  /\ UNCHANGED <<inp, engineVars>>

\* HTMLSkeleton(tree.str) for the two trees
MakeSkeletons ==
  /\ inp.kind = "pair"
  /\ out = NoOut
  /\ out' = [stage |-> "skeletons",
             sk1 |-> HTMLSkeleton(BeautifulSoup(inp.shape, inp.d1)),
             sk2 |-> HTMLSkeleton(BeautifulSoup(inp.shape, inp.d2))]
  /\ UNCHANGED <<inp, engineVars>>

SkeletonNext ==
  \/ GetScreenNameBySkeleton
  \/ MakeSkeletons

SkeletonSpec == SkeletonInit /\ [][SkeletonNext]_vars

\* -------------------------------------------------------- DependentAction
MaxArgs == 3

\* the names that a declaration can call, as the strings of their characters
W_tap == <<"t", "a", "p">>
W_long_tap == <<"l", "o", "n", "g", "_", "t", "a", "p">>
W_set_text == <<"s", "e", "t", "_", "t", "e", "x", "t">>
W_scroll == <<"s", "c", "r", "o", "l", "l">>
W_get_text == <<"g", "e", "t", "_", "t", "e", "x", "t">>
W_get_attributes ==
  <<"g", "e", "t", "_", "a", "t", "t", "r", "i", "b", "u", "t", "e", "s">>
W_back == <<"b", "a", "c", "k">>
W_swipe == <<"s", "w", "i", "p", "e">>
DeclaredKinds ==
  {W_tap, W_long_tap, W_set_text, W_scroll, W_get_text, W_get_attributes, W_back}

\* the declared kinds, each also with one more character, a name that is
\* none of them, and the start of one
DeclWords ==
  DeclaredKinds \cup {Append(w, "s") : w \in DeclaredKinds}
    \cup {W_swipe, <<"t", "a">>}

ScrollDirections == {"up", "down", "left", "lift", "right", "around"}

\* a declaration: the name it calls, whether a screen__ prefix is in it, the
\* number of its arguments besides the prefix, and the second argument
DeclInputs ==
  [kind : {"decl"}, word : DeclWords, scoped : BOOLEAN,
   argc : 0..MaxArgs, direction : ScrollDirections]

\* str.startswith
startswith(w, p) == Len(w) >= Len(p) /\ SubSeq(w, 1, Len(p)) = p

\* lines 36-71: _action.startswith(p)
kind_is(w, p) == startswith(w, p)

Raised(e) == [status |-> e, action_type |-> << >>]
Parsed(t) == [status |-> "ok", action_type |-> t]

\* DependentAction.__init__: the exception it raises or the action_type
DependentAction_init(d) ==
  IF ~d.scoped THEN Raised("AssertionError")
  ELSE IF kind_is(d.word, W_tap)
    THEN (IF d.argc = 1 THEN Parsed(<<"touch">>) ELSE Raised("AssertionError"))
  ELSE IF kind_is(d.word, W_long_tap)
    THEN (IF d.argc = 1 THEN Parsed(<<"long_touch">>) ELSE Raised("AssertionError"))
  ELSE IF kind_is(d.word, W_set_text)
    THEN (IF d.argc = 2 THEN Parsed(<<"set_text">>) ELSE Raised("AssertionError"))
  ELSE IF kind_is(d.word, W_scroll)
    THEN (IF d.argc = 2 /\ d.direction \in {"up", "down", "lift", "right"}
            THEN Parsed(<<"scroll", d.direction>>) ELSE Raised("AssertionError"))
  ELSE IF kind_is(d.word, W_get_text)
    THEN (IF d.argc = 1 THEN Parsed(<<"get_text">>) ELSE Raised("AssertionError"))
  ELSE IF kind_is(d.word, W_get_attributes)
    THEN (IF d.argc = 1 THEN Parsed(<<"get_attributes">>) ELSE Raised("AssertionError"))
  ELSE IF kind_is(d.word, W_back)
    THEN (IF d.argc = 0 THEN Parsed(<<"back">>) ELSE Raised("AssertionError"))
  ELSE Raised("ValueError")

\* ----------------------------------- specification of the catalog load
CatalogInit ==
  /\ EngineInit
  /\ inp \in DeclInputs
  /\ out = NoOut

\* ApiEle.__init__: DependentAction(action) for an action of a path
LoadDeclaration ==
  /\ inp.kind = "decl"
  /\ out = NoOut
  /\ out' = [stage |-> "loaded", action |-> DependentAction_init(inp)]
  /\ UNCHANGED <<inp, engineVars>>

CatalogNext ==
  \/ LoadDeclaration

CatalogSpec == CatalogInit /\ [][CatalogNext]_vars

\* ------------------------------------------------- ElementList cursor
MaxChildren == 3
MaxCalls == 6

\* StopIteration in the log of a cursor
Stop == -1

\* the cursor stays where the iteration stopped
index_kept_at_stop(i) == i

\* line 981: self.index = 0 before StopIteration is raised
index_at_stop(i) == 0

\* ElementList.__next__ (lines 966-982) for a handle whose group resolves to
\* n children and whose cursor is at i: what it returns (the position of
\* the child, or Stop) and the cursor afterwards
next_result(n, i) == IF n # 0 /\ i < n THEN i ELSE Stop
next_index(n, i) ==
  IF n = 0 THEN i
  ELSE IF i < n THEN i + 1
  ELSE index_at_stop(i)

\* -------------------------------------- specification of the cursor
\* ElementList.__init__ line 853: self.index = 0
CursorInit ==
  /\ EngineInit
  /\ inp = [kind |-> "cursor"]
  /\ out = [stage |-> "handle", index |-> 0, log |-> << >>]

\* next(handle), the group resolved on a screen where it has n children
CursorNext ==
  /\ out.stage = "handle"
  /\ Len(out.log) < MaxCalls
  /\ \E n \in 0..MaxChildren :
       out' = [out EXCEPT !.index = next_index(n, out.index),
                          !.log = Append(@, [n |-> n, r |-> next_result(n, out.index)])]
  /\ UNCHANGED <<inp, engineVars>>

CursorSpecNext ==
  \/ CursorNext

CursorSpec == CursorInit /\ [][CursorSpecNext]_vars

\* ------------------------------------------ replay in an app that obeys
MaxPathLen == 3

\* an app of screens 0..n: element i is directly visible on screen i - 1
\* and nowhere else, a tap on it opens screen i, back closes a screen, and
\* the target is on screen n
PathAction(i) == [screen_name |-> i - 1, api |-> i, action_type |-> "touch"]
MainPath(n) == [i \in 1..n |-> PathAction(i)]
AppTarget(n, screen) == screen = n
AppVisible(action, screen) == action.screen_name = screen
AppExecute(action, screen) ==
  IF action.action_type = "back" THEN (IF screen > 0 THEN screen - 1 ELSE 0)
  ELSE action.api

\* the declared paths of the target: the path that leads to it, alone, or
\* with its first step declared as another path before or after it
ReplayInputs ==
  UNION { {[kind |-> "replay", n |-> n, start |-> start, paths |-> paths] :
             start \in 0..(MaxPathLen - 1),
             paths \in {<<MainPath(n)>>, <<MainPath(1), MainPath(n)>>,
                        <<MainPath(n), MainPath(1)>>}} :
          n \in 1..MaxPathLen }

\* reversed(action_list)[idx], idx from 0
ReversedAction(action_list, idx) == action_list[Len(action_list) - idx]

\* dependency_action[:MAX_DEPENDENCE_DEPTH]
FirstPaths(paths) ==
  SubSeq(paths, 1, IF Len(paths) < MAX_DEPENDENCE_DEPTH THEN Len(paths)
                   ELSE MAX_DEPENDENCE_DEPTH)

\* ------------------------------------- specification of the replay loop
\* get_and_navigate_target_element at line 406: the target is not on the
\* start screen, which is not its own screen
ReplayInit ==
  /\ EngineInit
  /\ inp \in {i \in ReplayInputs : i.start < i.n}
  /\ out = [stage |-> "replay", pc |-> "while", screen |-> inp.start,
            target_ele |-> FALSE, counter |-> 0, count |-> 0, idx |-> 0,
            is_match |-> FALSE, dep_id |-> -1, executed |-> << >>, result |-> None]

\* line 408: while target_ele is None and counter < MAX_DEPENDENCE_WIDTH
ReplayWhile ==
  /\ out.pc = "while"
  /\ out' = IF ~out.target_ele /\ out.counter < MAX_DEPENDENCE_WIDTH
              THEN [out EXCEPT !.count = 0, !.pc = "for"]
              ELSE [out EXCEPT !.pc = "end"]
  /\ UNCHANGED <<inp, engineVars>>

\* lines 414-418: for action_list in dependency_action[:MAX_DEPENDENCE_DEPTH]
ReplayFor ==
  /\ out.pc = "for"
  /\ out' = IF out.count < Len(FirstPaths(inp.paths))
              THEN [out EXCEPT !.count = @ + 1, !.is_match = FALSE, !.dep_id = -1,
                               !.idx = 0, !.pc = "act"]
              ELSE [out EXCEPT !.pc = "after"]
  /\ UNCHANGED <<inp, engineVars>>

\* lines 419-489: one round of for idx, action in enumerate(reversed(...))
ReplayAct ==
  /\ out.pc = "act"
  /\ LET action_list == inp.paths[out.count] IN
     IF out.idx >= Len(action_list) THEN out' = [out EXCEPT !.pc = "pathEnd"]
     ELSE LET action == ReversedAction(action_list, out.idx) IN
       IF AppTarget(inp.n, out.screen)
         THEN out' = [out EXCEPT !.target_ele = TRUE, !.pc = "pathEnd"]
       ELSE IF action.screen_name # out.screen
         THEN out' = [out EXCEPT !.idx = @ + 1]
       ELSE IF action.action_type # "back" /\ ~AppVisible(action, out.screen)
         THEN out' = IF out.is_match THEN [out EXCEPT !.pc = "pathEnd"]
                     ELSE [out EXCEPT !.idx = @ + 1]
       ELSE out' = [out EXCEPT !.is_match = TRUE, !.dep_id = out.idx,
                               !.screen = AppExecute(action, out.screen),
                               !.executed = Append(@, action.api),
                               !.idx = @ + 1]
  /\ UNCHANGED <<inp, engineVars>>

\* lines 491-500: after the actions of a path
ReplayPathEnd ==
  /\ out.pc = "pathEnd"
  /\ out' = IF out.dep_id >= Len(inp.paths[out.count]) - 1
              THEN [out EXCEPT !.target_ele = AppTarget(inp.n, out.screen),
                               !.pc = "after"]
            ELSE IF out.is_match THEN [out EXCEPT !.pc = "after"]
            ELSE [out EXCEPT !.pc = "for"]
  /\ UNCHANGED <<inp, engineVars>>

\* lines 502-507: after the paths of a round
ReplayAfter ==
  /\ out.pc = "after"
  /\ out' = IF out.count = Len(inp.paths) THEN [out EXCEPT !.pc = "end"]
            ELSE [out EXCEPT !.counter = @ + 1, !.pc = "while"]
  /\ UNCHANGED <<inp, engineVars>>

\* lines 512-527: the target is returned or NotFoundError is raised
ReplayEnd ==
  /\ out.pc = "end"
  /\ out' = [out EXCEPT !.pc = "done",
                        !.result = IF out.target_ele THEN "Found" ELSE "NotFoundError"]
  /\ UNCHANGED <<inp, engineVars>>

ReplayNext ==
  \/ ReplayWhile
  \/ ReplayFor
  \/ ReplayAct
  \/ ReplayPathEnd
  \/ ReplayAfter
  \/ ReplayEnd

ReplaySpec == ReplayInit /\ [][ReplayNext]_vars

\* ------------------------------------------------ scope of a declaration
\* a referenced name is a string of at most MaxNameLen characters over NameChars
MaxNameLen == 7
NameChars == {"m", "_"}

ScopeInputs ==
  UNION { { [kind |-> "scope", ref |-> r] : r \in [1..n -> NameChars] } :
            n \in 1..MaxNameLen }

\* \w of the regular expressions of lines 24 and 75, on the characters used
WordChar(c) == c \in NameChars \cup Range(W_tap)

\* the declaration tap(<ref>) as DependentAction.__init__ receives it
ActionText(ref) == W_tap \o <<"(">> \o ref \o <<")">>

\* (\w+)__ matches s[i..j] followed by "__"
MatchesAt(s, i, j) ==
  /\ i <= j
  /\ j + 2 <= Len(s)
  /\ \A k \in i..(j + 2) : WordChar(s[k])
  /\ s[j + 1] = "_"
  /\ s[j + 2] = "_"

\* re.search(r'(\w+)__', action): the leftmost start, and from it the
\* longest group (\w+ is greedy); << >> stands for no match
re_search(s) ==
  LET starts == {i \in 1..Len(s) : \E j \in i..Len(s) : MatchesAt(s, i, j)}
  IN IF starts = {} THEN << >>
     ELSE LET i0 == CHOOSE i \in starts : \A k \in starts : i <= k
              j0 == CHOOSE j \in i0..Len(s) :
                      /\ MatchesAt(s, i0, j)
                      /\ \A k \in i0..Len(s) : MatchesAt(s, i0, k) => k <= j
          IN <<i0, j0>>

\* name.split('__')[0]
split_first(s) ==
  LET seps == {p \in 1..(Len(s) - 1) : s[p] = "_" /\ s[p + 1] = "_"}
  IN IF seps = {} THEN s
     ELSE SubSeq(s, 1, (CHOOSE p \in seps : \A q \in seps : p <= q) - 1)

\* lines 23-33: screen_name, the action without the match, argv[0] (the text
\* between the parentheses, no comma or quote being in it) and name
DependentAction_scope(ref) ==
  LET action == ActionText(ref)
      m == re_search(action)
  IN IF m = << >>
       THEN [status |-> "AssertionError", screen_name |-> << >>, name |-> << >>]
     ELSE LET screen_name == SubSeq(action, m[1], m[2])
              _action == SubSeq(action, 1, m[1] - 1)
                           \o SubSeq(action, m[2] + 3, Len(action))
              args_str == SubSeq(_action, Len(W_tap) + 2, Len(_action) - 1)
          IN [status |-> "ok", screen_name |-> screen_name,
              name |-> IF args_str = << >> THEN << >>
                       ELSE screen_name \o <<"_", "_">> \o args_str]

ScopeInit ==
  /\ EngineInit
  /\ inp \in ScopeInputs
  /\ out = NoOut

\* DependentAction(action) for the declaration tap(<ref>)
ParseScope ==
  /\ inp.kind = "scope"
  /\ out = NoOut
  /\ out' = [stage |-> "scoped", action |-> DependentAction_scope(inp.ref)]
  /\ UNCHANGED <<inp, engineVars>>

\* ApiDoc.get_api_by_name(name): the screen whose table is read
LookupScope ==
  /\ inp.kind = "scope"
  /\ out.stage = "scoped"
  /\ out.action.name # << >>
  /\ out' = [stage |-> "looked", action |-> out.action,
             screen |-> split_first(out.action.name)]
  /\ UNCHANGED <<inp, engineVars>>

ScopeNext ==
  \/ ParseScope
  \/ LookupScope

ScopeSpec == ScopeInit /\ [][ScopeNext]_vars

\* ------------------------------------------------- rows of sibling tags
\* a div with at most MaxSiblings children in a row
MaxSiblings == 3

SiblingInputs ==
  { [kind |-> "row", kids |-> kids] :
      kids \in UNION {[1..n -> ChildShapes] : n \in 1..MaxSiblings} }

SiblingInit ==
  /\ EngineInit
  /\ inp \in SiblingInputs
  /\ out = NoOut

\* HTMLSkeleton(html) of the tree whose root has the row as its children
CleanRepeatedSiblings ==
  /\ inp.kind = "row"
  /\ out = NoOut
  /\ out' = [stage |-> "cleaned",
             soup |-> HTMLSkeleton(BeautifulSoup(Shape("div", None, inp.kids),
                                     [text |-> "none", attrs |-> FALSE, id0 |-> 0]))]
  /\ UNCHANGED <<inp, engineVars>>

SiblingNext ==
  \/ CleanRepeatedSiblings

SiblingSpec == SiblingInit /\ [][SiblingNext]_vars

\* ------------------------------------------------ children of a group
\* the node objects reachable from node i
RECURSIVE tree_nodes(_, _)
tree_nodes(t, i) ==
  {i} \cup UNION {tree_nodes(t, t.kids[i][k]) : k \in 1..Len(t.kids[i])}

\* ElementTree.get_children_by_idx(ele, idx): the idx-th entry of
\* ele.children, NoEle for None
tree_get_children_by_idx(t, g, idx) ==
  IF idx < Len(t.ele[g].children) THEN t.ele[g].children[idx + 1] ELSE NoEle

\* ElementTree.get_children_by_ele(ele): the leaves of the node of ele in
\* ascending order of id
tree_get_children_by_ele(t, g) ==
  IF g \notin DOMAIN t.ele \/ g \notin tree_nodes(t, t.root) THEN << >>
  ELSE SortedSeq(t.leaves[g])

\* ElementList.__len__: the call of line 1052 passes four arguments to
\* get_and_navigate_target_element, which takes three
ElementList_len(t, g) == [status |-> "TypeError", n |-> 0]

\* group[idx] next to the elements that iterating the group yields, the
\* group being resolved to element g of a tree that stays as it is
GroupIndexAndIterate ==
  /\ out.stage = "built"
  /\ out.tree.status = "ok"
  /\ \E g \in DOMAIN out.tree.ele, idx \in 0..(MaxNodes - 1) :
       out' = [stage |-> "queried", tree |-> out.tree, group |-> g, idx |-> idx,
               item |-> tree_get_children_by_idx(out.tree, g, idx),
               yielded |-> tree_get_children_by_ele(out.tree, g)]
  /\ UNCHANGED <<inp, engineVars>>

\* len(group) after the iteration
GroupLen ==
  /\ out.stage = "queried"
  /\ out' = [stage |-> "counted", tree |-> out.tree, group |-> out.group,
             yielded |-> out.yielded, len |-> ElementList_len(out.tree, out.group)]
  /\ UNCHANGED <<inp, engineVars>>

\* ElementList.convert_ele_attr_to_elementlist(ele_attr) for the element that
\* indexing returned or for one that the iteration yields, and the element
\* its locator //type_[@id='id'] resolves to on the tree
ConvertEleAttrToElementList ==
  /\ out.stage = "queried"
  /\ \E via \in {"index", "iteration"} :
       \E e \in (IF via = "index" THEN {out.item} \ {NoEle} ELSE Range(out.yielded)) :
         LET ele_xpath == XLoc(out.tree.ele[e].tag, None, e)
         IN out' = [stage |-> "wrapped", tree |-> out.tree, group |-> out.group,
                    via |-> via, ele |-> e, ele_xpath |-> ele_xpath,
                    resolved |-> tree_get_ele_by_xpath(out.tree, ele_xpath)]
  /\ UNCHANGED <<inp, engineVars>>

GroupNext ==
  \/ BuildTree
  \/ GroupIndexAndIterate
  \/ GroupLen
  \/ ConvertEleAttrToElementList

GroupSpec == TreeInit /\ [][GroupNext]_vars

\* ---------------------------------------------------------------- system
Next ==
  \/ VerifierAction /\ UNCHANGED <<inp, out>>
  \/ VerifierGet /\ UNCHANGED <<inp, out>>
  \/ VerifierBack /\ UNCHANGED <<inp, out>>
  \/ ElementListInit /\ UNCHANGED <<inp, out>>
  \/ ElementListQuery /\ UNCHANGED <<inp, out>>
  \/ ElementListLen /\ UNCHANGED <<inp, out>>
  \/ ElementListAction /\ UNCHANGED <<inp, out>>
  \/ ElementListGet /\ UNCHANGED <<inp, out>>
  \/ FSDirect /\ UNCHANGED <<inp, out>>
  \/ FSOuter /\ UNCHANGED <<inp, out>>
  \/ FSInner /\ UNCHANGED <<inp, out>>
  \/ GNAfterSearch /\ UNCHANGED <<inp, out>>
  \/ DepWhile /\ UNCHANGED <<inp, out>>
  \/ DepPath /\ UNCHANGED <<inp, out>>
  \/ DepAct /\ UNCHANGED <<inp, out>>
  \/ DepAfterFS /\ UNCHANGED <<inp, out>>
  \/ DepPathEnd /\ UNCHANGED <<inp, out>>
  \/ GNEnd /\ UNCHANGED <<inp, out>>
  \/ TermVerifierExecute /\ UNCHANGED <<inp, out>>
  \/ TermVerifierGet /\ UNCHANGED <<inp, out>>
  \/ TermGetItem /\ UNCHANGED <<inp, out>>
  \/ TermNext /\ UNCHANGED <<inp, out>>
  \/ TermMatch /\ UNCHANGED <<inp, out>>
  \/ TermGroupExecute /\ UNCHANGED <<inp, out>>
  \/ TermGroupGet /\ UNCHANGED <<inp, out>>

Spec == Init /\ [][Next]_vars

\* ---------------------------------------------------------------- claims
\* a request has run to its end
RequestOver == pc \in {"idle", "done"} /\ req # NoReq

\* steps of get_and_navigate_target_element after its search has returned
AfterSearchPcs == {"gn", "depWhile", "depPath", "depAct", "depAfterFS", "depPathEnd",
                   "gnEnd", "term"}

\* the dependency loop is running
InReplay ==
  \/ pc \in {"depWhile", "depPath", "depAct", "depAfterFS", "depPathEnd", "gnEnd"}
  \/ pc \in {"fs", "fsOuter", "fsInner"} /\ fs.caller = "dep"

\* environment actions a request has issued so far
EnvActions == hist.terms + hist.scrolls + hist.navs + hist.backs + hist.opens

\* C1: the phases of a request run in the order direct lookup, scroll search,
\* dependency replay, terminal action: a target found by the direct lookup
\* costs no scroll and no dependency-path action, a target found by the
\* scroll search costs no dependency-path action (go-back included), the
\* dependency loop starts only after the search has returned without the
\* target, and the terminal action is the last step
C1_PhaseOrder ==
  /\ hist.foundBy = "direct" => hist.scrolls = 0 /\ hist.navs = 0
  /\ hist.foundBy = "scroll" => hist.navs = 0
  /\ pc \in AfterSearchPcs => hist.searched
  /\ (InReplay \/ hist.navs > 0) =>
        hist.searched /\ hist.foundBy \notin {"direct", "scroll"}
  /\ hist.terms > 0 => hist.foundBy # None /\ pc \in {"idle", "done"}

\* a target reached through scroll search, then replay, then the terminal action
C1_Witness ==
  /\ hist.foundBy = "replay"
  /\ hist.scrolls > 0
  /\ hist.navs > 0
  /\ hist.terms = 1

\* the click the environment must receive for element id of tree u
ExpectedClick(u, id) ==
  [action_type |-> "click",
   x |-> (UITrees[u].ele[id].bbox[1] + UITrees[u].ele[id].bbox[2]) \div 2,
   y |-> (UITrees[u].ele[id].bbox[3] + UITrees[u].ele[id].bbox[4]) \div 2,
   text |-> None]

\* the request taps the element its own lookup resolved
TapsResolvedTarget ==
  req.op = "tap" /\ (req.via = "engine" \/ req.sel.k = "none")

\* C2: a tap whose element is found by the direct lookup issues exactly one
\* environment action, a click at the integer centre of the element's pixel
\* box, writes exactly one 'action' log record and no other, and scrolls,
\* navigates and goes back not at all
C2_DirectTap ==
  (RequestOver /\ TapsResolvedTarget /\ hist.foundBy = "direct") =>
     /\ EnvActions = 1
     /\ hist.terms = 1
     /\ hist.logA = 1 /\ hist.logN = 0 /\ hist.logC = 0
     /\ hist.act = ExpectedClick(target_ele.u, target_ele.id)

\* a direct tap on the element whose box has an odd width
C2_Witness ==
  /\ RequestOver /\ TapsResolvedTarget /\ hist.foundBy = "direct"
  /\ req.via = "engine"
  /\ outcome = "ok"
  /\ hist.act = [action_type |-> "click", x |-> 15, y |-> 50, text |-> None]

\* C3: every request ends in success or in one of the four typed errors
C3_TypedOutcome ==
  RequestOver => outcome \in {"ok", "StopIteration"} \cup TypedErrors

\* C4: a request that ends with NotFoundError has issued at most
\* MAX_DEPENDENCE_DEPTH * MAX_DEPENDENCE_WIDTH navigation sub-actions (backs,
\* dependency actions, scrolls made to find them) in its dependency loop
C4_ReplayBound ==
  (RequestOver /\ outcome = "NotFoundError") =>
     hist.navs <= MAX_DEPENDENCE_DEPTH * MAX_DEPENDENCE_WIDTH

\* C5: a request that names an api the catalog does not have ends with
\* APIError and has issued no environment action
C5_UnknownApi ==
  (RequestOver /\ req.sel.k = "str" /\ req.sel.name \notin ApiNames) =>
     outcome = "APIError" /\ EnvActions = 0

\* the search has returned without the target, no dependency action has
\* been issued since, and the screen the target is declared on is the
\* screen the cached tree resolves to
AbsentOnOwnScreen ==
  /\ hist.searched /\ fsres = NoTarget /\ hist.foundBy = None
  /\ hist.navs = 0 /\ fs.caller = "top"
  /\ get_ele_by_xpath(cache, gn.xpath) = NoEle
  /\ gn.api.name \in ApiNames
  /\ Head(gn.api.name) = get_screen_name_by_skeleton(cache)

\* C6: a target absent after the scroll search on its own declared screen
\* makes the request fail with XPathError, without any dependency action
C6_OwnScreen ==
  (AbsentOnOwnScreen /\ pc # "gn") => pc = "done" /\ outcome = "XPathError"

\* C7: a request that ends with a typed error has written a 'crashed' log
\* record before
C7_CrashedLogged ==
  (RequestOver /\ outcome \in TypedErrors) => hist.logC >= 1

\* C8: every environment action is followed, before the next one, by the
\* settle wait, the snapshot refresh and the fingerprint update, in order
C8_Settle == mon.ok

\* the operations that count as requested actions
CountedOps == {"tap", "long_tap", "set_text", "scroll", "get_text", "get_attributes",
               "back", "getitem", "next", "match", "len"}

\* C9: a requested action, successful or not, raises the action counter by
\* exactly one
C9_Counter ==
  (RequestOver /\ req.op \in CountedOps) => action_count = hist.count0 + 1

\* C10: one request executes at most one terminal primitive action
C10_OneTerminal == hist.terms <= 1

\* a group handle's terminal action after scrolling to the handle
C10_Witness ==
  /\ RequestOver
  /\ req.via = "group"
  /\ hist.scrolls > 0
  /\ hist.terms = 1

\* C11: a scroll search that has scrolled and returns without the target
\* leaves a tree that does not hold the target: the locator is re-checked
\* after every scroll, the last one included
C11_Recheck ==
  (pc = "gn" /\ fsres = NoTarget /\ hist.scrolls > 0) =>
     get_ele_by_xpath(cache, gn.xpath) = NoEle

SingleBackDep(name) ==
  /\ Len(get_dependency(name)) = 1
  /\ Len(get_dependency(name)[1]) = 1
  /\ get_dependency(name)[1][1].action_type = "back"

\* C13: for a target whose only dependency is one go-back action declared on
\* the current screen, the replay issues exactly one back navigation and
\* nothing else, no scroll follows it, and the target is returned when the
\* refreshed tree holds it
C13_GoBack ==
  /\ [](  (SingleBackDep(gn.api.name) /\ hist.navs > 0) =>
            /\ hist.navs = 1 /\ hist.rbacks = 1
            /\ pc = "gnEnd" =>
                 (target_ele # NoTarget <=> get_ele_by_xpath(cache, gn.xpath) # NoEle)
            /\ pc = "gnEnd" /\ target_ele # NoTarget =>
                 target_ele.id = get_ele_by_xpath(cache, gn.xpath) )
  /\ [][ (SingleBackDep(gn.api.name) /\ hist.rbacks = 1 /\ hist'.rbacks = 1) =>
            (hist'.scrolls = hist.scrolls /\ hist'.navs = hist.navs) ]_vars

\* the target found right after the one back navigation
C13_Witness ==
  /\ SingleBackDep(gn.api.name)
  /\ pc = "term"
  /\ hist.foundBy = "replay"
  /\ hist.rbacks = 1 /\ hist.navs = 1

\* ---------------------------------------------------------------- C14
\* the same sequence in every order
Orders(q) ==
  {[k \in 1..Len(q) |-> q[f[k]]] :
     f \in {g \in [1..Len(q) -> 1..Len(q)] : Range(g) = 1..Len(q)}}

\* C14: building from the same raw map, valid ids and root gives the same
\* ids, leaf sets and pruning result (or the same error) whatever the order
\* of the entries of the map and whatever the order of the valid-id list
C14_Deterministic ==
  out.stage = "built" =>
    \A m \in Orders(inp.ele_attrs) : \A v \in Orders(inp.valid_ele_ids) :
       build_tree(m, v, inp.root_id) = out.tree

\* a tree is built from a map whose root lists its two children in
\* descending order, one of them valid
C14_Witness ==
  /\ out.stage = "built"
  /\ out.tree.status = "ok"
  /\ MapGet(inp.ele_attrs, 0).children = <<2, 1>>
  /\ inp.valid_ele_ids = <<1>>

\* ---------------------------------------------------------------- C15
\* the ids of ele_map in pre-order over the children lists
RECURSIVE ele_preorder(_, _)
ele_preorder(t, i) ==
  <<i>> \o ConcatAll([k \in 1..Len(t.ele[i].children) |->
                        ele_preorder(t, t.ele[i].children[k])])

\* the original ids that the child links reach from the root
Reachable == Range(dfs_order(inp.ele_attrs, inp.root_id))

\* the 0, 1, 2, ... rank of an original id among the reachable ones
RankOf(n) == Cardinality({n2 \in Reachable : n2 < n})

\* C15 as stated: every node's id is the ascending rank of the node's own
\* original id among the ids reachable from the root
C15_RankOfOwnId ==
  (out.stage = "built" /\ out.tree.status = "ok") =>
     \A i \in DOMAIN out.tree.ele : i = RankOf(out.tree.orig[i])

\* C15: the ids are unique and are the reachable original ids, given out so
\* that the node at depth-first position k has the k-th smallest of them
C15_DepthFirstIds ==
  (out.stage = "built" /\ out.tree.status = "ok") =>
     /\ DOMAIN out.tree.ele = Reachable
     /\ \A i \in DOMAIN out.tree.ele : out.tree.ele[i].id = i
     /\ \A i, j \in DOMAIN out.tree.ele :
          out.tree.orig[i] = out.tree.orig[j] => i = j
     /\ ele_preorder(out.tree, out.tree.root) = SortedSeq(Reachable)
     /\ [k \in 1..Cardinality(Reachable) |->
           out.tree.orig[SortedSeq(Reachable)[k]]]
          = dfs_order(inp.ele_attrs, inp.root_id)

\* a tree is built from original ids 0, 1, 3 where 3 comes before 1 in
\* depth-first order: the node that was 3 has id 1
C15_Witness ==
  /\ out.stage = "built"
  /\ out.tree.status = "ok"
  /\ dfs_order(inp.ele_attrs, inp.root_id) = <<0, 3, 1>>
  /\ out.tree.orig[1] = 3
  /\ out.tree.orig[3] = 1

\* ---------------------------------------------------------------- C16
\* the ids that the serialized tree shows, and those it shows childless
Retained(t) == {get_str(t, t.root, 0)[k].id : k \in 1..Len(get_str(t, t.root, 0))}
RetainedLeaves(t) == {i \in Retained(t) : t.kids[i] = << >>}

\* C16: after pruning the root is retained, every retained node that has
\* children has a non-empty leaf set, and every retained leaf is a valid id
C16_Pruned ==
  (out.stage = "built" /\ out.tree.status = "ok") =>
     /\ out.tree.root \in Retained(out.tree)
     /\ \A i \in Retained(out.tree) \ RetainedLeaves(out.tree) :
          out.tree.leaves[i] # {}
     /\ RetainedLeaves(out.tree) \subseteq out.tree.valid

\* ---------------------------------------------------------------- C17
\* a node that the child links reach lists a child id the map does not have
DanglingChild ==
  \E n \in Reachable :
     \E c \in Range(MapGet(inp.ele_attrs, n).children) :
        c \notin MapKeys(inp.ele_attrs)

\* C17: when a node lists a child id that is absent from the raw map the
\* build completes and the tree has every node but that child
C17_PartialGraph ==
  (out.stage = "built" /\ DanglingChild) =>
     /\ out.tree.status = "ok"
     /\ {out.tree.orig[i] : i \in DOMAIN out.tree.ele} = Reachable

\* ---------------------------------------------------------------- C18
\* the node ele_id and the nodes below it in ele_map
Descendants(t, ele_id) == MapKeys(subtree_ele_attr(t, <<ele_id>>))

\* the first element of the document of t that matches x and is in S
FirstMatchIn(t, x, S) ==
  LET doc == get_str(t, t.root, 0)
      eles == {k \in 1..Len(doc) : XMatch(doc[k], x) /\ doc[k].id \in S}
  IN IF eles = {} THEN NoEle
     ELSE doc[CHOOSE k \in eles : \A k2 \in eles : k <= k2].id

\* a subtree was extracted at a node of the tree and both lookups were made
Looked == out.stage = "found" /\ out.ele_id \in DOMAIN out.tree.ele

CommonCount(k) ==
  count(extract_common_skeleton(inp.catalog[k].skeleton, inp.skeleton))

\* the screens that attain the greatest count
BestScreens ==
  {k \in 1..Len(inp.catalog) : \A k2 \in 1..Len(inp.catalog) :
     CommonCount(k2) <= CommonCount(k)}

\* C19: when no catalog skeleton equals the live skeleton, the resolution
\* returns the one screen with the strictly greatest common-structure count,
\* and None when the best count is zero or two or more screens attain it
C19_StrictBest ==
  (out.stage = "resolved" /\ ExactScreens(inp.catalog, inp.skeleton) = {}) =>
     IF Cardinality(BestScreens) >= 2 \/ \A k \in BestScreens : CommonCount(k) = 0
       THEN out.screen_name = None
       ELSE \A k \in BestScreens : out.screen_name = inp.catalog[k].screen_name

\* ---------------------------------------------------------------- C20
\* C20: two trees with the same tags and resource ids at every position,
\* whatever their text, ids, alt and status, have equal skeletons
C20_SkeletonEq ==
  out.stage = "skeletons" => skeleton_eq(out.sk1, out.sk2)

\* the skeletons of a tree of four elements were made, once from a str with
\* text, alt and status and once from a plain one with other ids
C20_Witness ==
  /\ out.stage = "skeletons"
  /\ ShapeSize(inp.shape) = 4
  /\ inp.d1 = [text |-> "all", attrs |-> TRUE, id0 |-> 0]
  /\ inp.d2 = [text |-> "none", attrs |-> FALSE, id0 |-> 1]
  /\ skeleton_eq(out.sk1, out.sk2)

\* ---------------------------------------------------------------- C21
\* the number of arguments of a declared kind
Arity(w) ==
  IF w = W_back THEN 0
  ELSE IF w \in {W_set_text, W_scroll} THEN 2 ELSE 1

\* a declaration whose kind is none of the seven, whose argument count is
\* wrong, or that has no screen prefix
Malformed(d) ==
  \/ d.word \notin DeclaredKinds
  \/ d.argc # Arity(d.word)
  \/ ~d.scoped

\* C21: the load of every malformed dependency declaration fails: none
\* survives the load
C21_EagerLoadFailure ==
  (out.stage = "loaded" /\ Malformed(inp)) => out.action.status # "ok"

\* ---------------------------------------------------------------- C22
\* a step that constructs a handle by api name
ConstructsHandle == pc = "idle" /\ nreq' = nreq + 1 /\ req'.op = "init"

\* a step in which __getitem__, __next__ or match makes a handle from the
\* node it found
ConstructsDiscovered == pc = "term" /\ req.op \in {"getitem", "next", "match"}

\* C22: the construction of a group handle, by api name or from a
\* discovered node, makes no environment call, fetches no snapshot and
\* queries no tree: as long as handles are only constructed, no snapshot
\* has been fetched
C22_LazyHandle ==
  /\ []((nreq = 1 /\ req.op = "init") => (cache = 0 /\ mon.pending = 0))
  /\ [][ConstructsHandle =>
          /\ cache' = cache
          /\ mon' = mon
          /\ last_screen_html_str' = last_screen_html_str
          /\ action_count' = action_count
          /\ hist' = H0
          /\ fs' = fs /\ fsres' = fsres /\ target_ele' = target_ele
          /\ pc' \in {"idle", "done"}]_vars
  /\ [][ConstructsDiscovered =>
          /\ cache' = cache
          /\ mon' = mon
          /\ last_screen_html_str' = last_screen_html_str
          /\ hist'.scrolls = hist.scrolls /\ hist'.navs = hist.navs
          /\ hist'.terms = hist.terms]_vars

\* a handle was constructed by api name and no snapshot was ever fetched
C22_Witness ==
  /\ nreq = 1
  /\ req.op = "init"
  /\ outcome = "ok"
  /\ pc = "idle"
  /\ cache = 0

\* ---------------------------------------------------------------- C23
\* __getitem__ has resolved its group and the selector is an integer
IndexesResolved == pc = "term" /\ req.op = "getitem" /\ req.arg # "key"

\* C23: indexing a resolved group with an integer n returns a handle on
\* the n-th direct child when n is in range and returns absence, raising
\* nothing, when it is not
C23_IndexOrAbsent ==
  [][IndexesResolved => outcome' = "ok"]_vars

\* ---------------------------------------------------------------- C24
\* every call so far found the group with the same n >= 1 children
StableGroup(n) ==
  /\ out.stage = "handle"
  /\ n >= 1
  /\ \A k \in 1..Len(out.log) : out.log[k].n = n

\* C24 as stated: the children come once in order, and once the cursor is
\* exhausted a further iteration over the handle yields nothing
C24_NotReusable ==
  \A n \in 1..MaxChildren :
     StableGroup(n) =>
        \A k \in 1..Len(out.log) :
           /\ k <= n => out.log[k].r = k - 1
           /\ k > n => out.log[k].r = Stop

\* C24: the children come once in order and then the iteration stops; the
\* stop puts the cursor back to 0, so that a further iteration over the
\* same handle yields the children again from the first
C24_Restarts ==
  \A n \in 1..MaxChildren :
     StableGroup(n) =>
        /\ \A k \in 1..Len(out.log) :
             out.log[k].r = (IF k % (n + 1) = 0 THEN Stop ELSE (k % (n + 1)) - 1)
        /\ out.index = Len(out.log) % (n + 1)

\* a group of two children was iterated to the end and then once more
C24_Witness ==
  /\ StableGroup(2)
  /\ Len(out.log) = 5
  /\ out.log[3].r = Stop
  /\ out.log[4].r = 0
  /\ out.log[5].r = 1

\* ---------------------------------------------------------------- C25
\* match has resolved its group
MatchesResolved == pc = "term" /\ req.op = "match"

\* the children of the resolved group that equal the text
MatchingChildren ==
  {k \in 1..Len(get_children_by_ele(cache, target_ele.id)) :
     is_match(cache, get_children_by_ele(cache, target_ele.id)[k], req.arg)}

\* C25: match on a resolved group returns a handle on the first child that
\* equals the text or satisfies the attribute dict, "selected" and
\* "checked" among its keys, and raises ActionError exactly when no child
\* matches: it ends in no other way
C25_MatchOrActionError ==
  [][MatchesResolved =>
       /\ outcome' \in {"ok", "ActionError"}
       /\ req.arg # "dict" => (outcome' = "ActionError" <=> MatchingChildren = {})]_vars

\* ---------------------------------------------------------------- C26
\* C26: len() of a group handle returns the number of children of the
\* resolved group, and 0 when the group cannot be located: it raises
\* nothing
C26_LenOrZero ==
  req.op = "len" => outcome \notin TypedErrors \cup UntypedErrors

\* ---------------------------------------------------------------- C27
\* the declared path that leads from the current screen to the target is
\* among the paths the replay looks at, and its length is within the
\* configured bounds
PathWithinBounds ==
  /\ inp.start = 0
  /\ inp.n <= MAX_DEPENDENCE_DEPTH
  /\ inp.n <= MAX_DEPENDENCE_WIDTH
  /\ \E k \in 1..Len(FirstPaths(inp.paths)) : inp.paths[k] = MainPath(inp.n)

\* C27: when a declared path a1..an, executed in declared order from the
\* current screen, makes the target present and n is within the bounds, the
\* request ends Found, for one or more declared paths and any n >= 1
C27_PathFound ==
  (out.stage = "replay" /\ out.pc = "done" /\ PathWithinBounds) =>
     out.result = "Found"

\* ---------------------------------------------------------------- C28
\* the scroll search leaves the container it is at, with the target absent
\* and the container locatable in the current tree
LeavesLocatableContainer ==
  /\ pc = "fsInner"
  /\ pc' = "fsOuter"
  /\ get_ele_by_xpath(cache, fs.xpath) = NoEle
  /\ get_ele_by_properties(cache, fs.props) # NoEle

\* C28: while the target stays absent the scroll search issues at least one
\* scroll on each locatable container before it gives the container up,
\* whatever happened on the containers before it
C28_EveryContainer ==
  [][LeavesLocatableContainer => hist'.cscrolls >= 1]_vars

\* ---------------------------------------------------------------------------
\* C29: during dependency replay a go-back action of the path is executed
\* unconditionally: whenever the replay reaches a back action while the target
\* is still absent, the back is sent to the environment, also when the
\* action's declared screen differs from the currently resolved screen.
ReachesBackAction ==
  /\ pc = "depAct"
  /\ dep.idx < Len(ActionList)
  /\ ReversedAt(ActionList, dep.idx).action_type = "back"
  /\ target_lookup(cache, gn.xpath) = NoTarget

C29_BackUnconditional ==
  [][ReachesBackAction => hist'.rbacks = hist.rbacks + 1]_vars

\* ---------------------------------------------------------------------------
\* C30: every tree query whose result decides or targets an environment
\* action is evaluated on the snapshot fetched after the most recent
\* environment action: the tree find_target_element_in_group extracts the
\* group's subtree from is the cached snapshot at the time of the query, and
\* the tree whose screen back() resolves to decide on reopening the app is
\* the snapshot fetched after the navigate_back.
QueriesGroupSubtree ==
  /\ pc = "term"
  /\ req.via = "group"
  /\ req.op \in {"tap", "long_tap", "set_text"}
  /\ req.sel.k # "none"

DecidedToStay ==
  /\ pc \in {"idle", "done"}
  /\ req.via = "engine"
  /\ req.op = "back"
  /\ hist.backs = 1
  /\ hist.opens = 0

C30_FreshSnapshot ==
  /\ QueriesGroupSubtree => grpTree = cache
  /\ DecidedToStay => grpTree = cache

\* ---------------------------------------------------------------------------
\* C31: a long_tap request executes a long-press environment action on the
\* resolved element, whether issued through the engine or through a group
\* handle: every terminal action of a long_tap request is a long_press.
ExecutesLongTap ==
  /\ pc = "term"
  /\ req.op = "long_tap"
  /\ hist'.terms = hist.terms + 1

C31_LongPress ==
  [][ExecutesLongTap => hist'.act.action_type = "long_press"]_vars

\* ---------------------------------------------------------------------------
\* C32: every delegated primitive on a group handle (tap, long_tap, set_text
\* with or without an inner target, get_text, get_attributes) whose target
\* resolves completes normally: the step taken once the target is resolved
\* ends the request with outcome ok.
DelegatedResolved ==
  /\ pc = "term"
  /\ req.via = "group"
  /\ req.op \in {"tap", "long_tap", "set_text", "get_text", "get_attributes"}
  /\ (req.op \in {"tap", "long_tap", "set_text"} /\ req.sel.k # "none")
       => find_in_subtree(grpTree, target_ele.id, InnerXPath(req.sel)) # NoEle

C32_DelegatedCompletes ==
  [][DelegatedResolved => (pc' = "idle" /\ outcome' = "ok")]_vars

\* ---------------------------------------------------------------------------
\* C33: for every dependency declaration the parsed owning screen name is
\* the text preceding the first '__' of the referenced name, the same screen
\* get_api_by_name derives by splitting on the first '__', also when the
\* api name itself contains a further '__' (names made of words joined by '__').
ScopedName(r) ==
  /\ r[1] = "m"
  /\ r[Len(r)] = "m"
  /\ \A k \in 2..(Len(r) - 1) :
       r[k] = "_" => ((r[k - 1] = "_") # (r[k + 1] = "_"))

C33_FirstSeparator ==
  (out.stage = "looked" /\ ScopedName(inp.ref)) =>
    /\ out.action.screen_name = out.screen
    /\ out.action.screen_name = split_first(inp.ref)

\* ---------------------------------------------------------------------------
\* C34: a dependency-path scroll declaration (scoped, two arguments) is
\* accepted at catalog load exactly when its direction, lower-cased, is one
\* of the directions the scroll primitive supports: up, down, left, right.
SupportedDirections == {"up", "down", "left", "right"}

ScrollDeclaration ==
  /\ inp.kind = "decl"
  /\ out.stage = "loaded"
  /\ inp.word = W_scroll
  /\ inp.scoped
  /\ inp.argc = 2

C34_ScrollVocabulary ==
  ScrollDeclaration =>
    (out.action.status = "ok" <=> inp.direction \in SupportedDirections)

\* ---------------------------------------------------------------------------
\* C35: skeleton normalization replaces each maximal run of consecutive
\* siblings with the same tag and retained identifier by one representative
\* and keeps siblings that are not adjacent duplicates: the row of children
\* of the normalized root is the input row with its runs collapsed.
RowSignature(k) == <<k.name, k.rid>>

CollapsedRuns(kids) ==
  LET heads == {k \in 1..Len(kids) :
                  k = 1 \/ RowSignature(kids[k]) # RowSignature(kids[k - 1])}
  IN [i \in 1..Cardinality(heads) |-> RowSignature(kids[SortedSeq(heads)[i]])]

CleanedRow(soup) ==
  LET root == soup.contents[1]
  IN [i \in 1..Len(root.contents) |->
        <<root.contents[i].name, root.contents[i].resource_id>>]

C35_RunsCollapsed ==
  out.stage = "cleaned" => CleanedRow(out.soup) = CollapsedRuns(inp.kids)

\* C35 as the code has it: among the child tags of a node the first of each
\* signature (tag, retained identifier) is kept, in order, and every later
\* sibling with that signature is removed, adjacent or not.
FirstOccurrences(kids) ==
  LET firsts == {k \in 1..Len(kids) :
                   \A j \in 1..(k - 1) : RowSignature(kids[j]) # RowSignature(kids[k])}
  IN [i \in 1..Cardinality(firsts) |-> RowSignature(kids[SortedSeq(firsts)[i]])]

C35_FirstOfEachSignature ==
  out.stage = "cleaned" => CleanedRow(out.soup) = FirstOccurrences(inp.kids)

C35_Witness ==
  /\ out.stage = "cleaned"
  /\ Len(inp.kids) = 3
  /\ RowSignature(inp.kids[1]) = RowSignature(inp.kids[3])
  /\ RowSignature(inp.kids[1]) # RowSignature(inp.kids[2])
  /\ Len(CleanedRow(out.soup)) = 2

\* ---------------------------------------------------------------------------
\* C36: whenever a request ends with NotFoundError or XPathError, the
\* requested locator has no match in the engine's cached tree at that moment.
ReportsMissing ==
  /\ pc = "done"
  /\ outcome \in {"NotFoundError", "XPathError"}

C36_MissingIsMissing ==
  ReportsMissing => target_lookup(cache, gn.xpath) = NoTarget

\* ---------------------------------------------------------------------------
\* C37: indexing, iteration and length agree on what a group's children are:
\* group[i] is the (i+1)-th element the iteration yields (and is absent when
\* the iteration yields fewer), and len(group) is the number of elements the
\* iteration yields.  Indexing and iteration are compared on the trees whose
\* elements are all valid.
AllValid(t) == t.valid = DOMAIN t.ele

C37_IndexIterationAgree ==
  (out.stage = "queried" /\ AllValid(out.tree)) =>
    out.item = (IF out.idx < Len(out.yielded) THEN out.yielded[out.idx + 1] ELSE NoEle)

C37_LenAgrees ==
  out.stage = "counted" =>
    (out.len.status = "ok" /\ out.len.n = Len(out.yielded))

C37_ChildrenAgree ==
  /\ C37_IndexIterationAgree
  /\ C37_LenAgrees

\* ---------------------------------------------------------------------------
\* C38: for every element returned by indexing, iteration or match on a
\* group (a group that the tree's document holds), the synthesized locator
\* //<role>[@id='<id>'] carried by the returned handle, evaluated on the same
\* tree, resolves to exactly that element.
WrappedFromGroup ==
  /\ out.stage = "wrapped"
  /\ out.group \in tree_nodes(out.tree, out.tree.root)

C38_LocatorRoundTrip ==
  WrappedFromGroup => out.resolved = out.ele

\* ---------------------------------------------------------------------------
\* C39: extract_subtree(id) preserves identity: every node of the extracted
\* subtree carries the id it has in the parent tree, with the same children,
\* and the parent tree's ids, child links and serialization are what they
\* were before the extraction.
Extracted ==
  /\ out.stage = "sub"
  /\ out.sub.status # None

C39_IdentityPreserved ==
  Extracted =>
    /\ out.sub.status = "ok"
    /\ out.sub.root = out.ele_id
    /\ \A n \in DOMAIN out.sub.ele :
         /\ out.sub.orig[n] = n
         /\ out.sub.ele[n] = out.tree.ele[n]
    /\ out.ele_map = out.tree.ele
    /\ get_str([out.tree EXCEPT !.ele = out.ele_map], out.tree.root, 0)
         = get_str(out.tree, out.tree.root, 0)

C39_Witness ==
  /\ Extracted
  /\ out.ele_id # out.tree.root
  /\ Cardinality(DOMAIN out.sub.ele) >= 2
  /\ out.ele_id \in tree_nodes(out.tree, out.tree.root)

\* ---------------------------------------------------------------------------
\* C40: between top-level engine operations the change-detection fingerprint
\* is unset or equal to the serialization of the engine's cached tree, so
\* that each 'UI did not move' test compares the post-action tree with the
\* tree that was cached immediately before that action.
BetweenOperations == pc \in {"idle", "done"}

FingerprintOfCache ==
  \/ last_screen_html_str = 0
  \/ (cache # 0 /\ last_screen_html_str = UITrees[cache].str)

\* a step that ends with check_last_screen_html after an environment action
ChecksLastScreen ==
  \/ /\ pc # "idle"
     /\ hist'.scrolls + hist'.navs + hist'.terms > hist.scrolls + hist.navs + hist.terms
  \/ /\ pc = "idle"
     /\ req'.op = "back"

\* the fingerprint the test reads is the serialization of the tree cached
\* immediately before the last action of the step
ComparesWithTreeBeforeAction ==
  \/ /\ pc # "idle"
     /\ last_screen_html_str = UITrees[cache].str
  \/ /\ pc = "idle"
     /\ hist'.opens = 0
     /\ last_screen_html_str = UITrees[grpTree'].str

C40_AlwaysComparesBefore ==
  /\ [](BetweenOperations => FingerprintOfCache)
  /\ [][ChecksLastScreen => ComparesWithTreeBeforeAction]_vars

\* C40 as the code has it: the fingerprint is unset or that of the cached
\* tree between operations, and a test that finds the fingerprint set
\* compares with the tree that was cached when the step began; a test that
\* finds it unset compares with nothing.
ComparesWithTreeBeforeStep ==
  \/ last_screen_html_str = 0
  \/ /\ pc # "idle"
     /\ last_screen_html_str = UITrees[cache].str
  \/ /\ pc = "idle"
     /\ last_screen_html_str = UITrees[grpTree'].str

C40_FingerprintOfCache ==
  /\ [](BetweenOperations => FingerprintOfCache)
  /\ [][ChecksLastScreen => ComparesWithTreeBeforeStep]_vars

C40_Witness ==
  /\ pc = "idle"
  /\ nreq = 2
  /\ req.op = "back"
  /\ hist.opens = 1
  /\ last_screen_html_str # 0
  /\ last_screen_html_str = UITrees[cache].str

====
